---- MODULE Spec2Model ----
(***************************************************************************)
(* A model of js/src/vm/RegExpObject.cpp: the per-compartment registry of  *)
(* RegExpShared records (RegExpCompartment), the records' marking and      *)
(* sweeping, RegExpObject's link to its record, and RegExpShared::execute. *)
(*                                                                         *)
(* A RegExpShared is identified by an id 1..MaxRecords that is never       *)
(* handed out twice, so that "the same instance" is a comparison of ids.   *)
(* An atom is identified by its text: every referent of an atom marks it,  *)
(* so an atom that some live thing of the model points to is never         *)
(* finalized.                                                              *)
(***************************************************************************)
EXTENDS Integers, Sequences, FiniteSets, TLC

VARIABLES
    shared,       \* id -> the RegExpShared's fields (NoShared: not allocated or deleted)
    alive,        \* ids of the RegExpShared instances allocated and not deleted
    allocated,    \* how many RegExpShared instances were ever allocated
    set_,         \* RegExpCompartment::set_ (ids; weak)
    matchResultTemplateObject_,  \* RegExpCompartment::matchResultTemplateObject_
    gcPhase,      \* "idle" | "mark" (a collection of the zone is marking)
    preservingCode, \* zone->isPreservingCode() of the collection in progress
    atomMarked,   \* atoms marked by the collection in progress
    codeMarked,   \* <<id, slot>> of the JitCode marked by the collection in progress
    tmplMarked,   \* the template object is marked by the collection in progress
    objTraced,    \* RegExpObjects the collection in progress has traced
    objKey,       \* object -> <<source, flags>> of its slots (NoKey: not initialised)
    objShared,    \* object -> its private RegExpShared pointer (0: nullptr)
    guards,       \* ids held by the RegExpGuards on the stack
    got,          \* history: key -> the id the last get() for that key returned (0: none)
    handedOut,    \* history: the ids get/getShared returned during the collection in progress
    last,         \* history: what the last operation was and what it saw (NoOp: nothing kept)
    interrupt,    \* cx->runtime()->interrupt
    exec,         \* the execute() call in flight
    parse,        \* what the last js::ParseRegExpFlags call was given and what it did
    rendered,     \* the string the last RegExpObject::toString call returned
    lastCall,     \* history: how the previous execute() call returned (when kept)
    xdr,          \* the XDR buffer of js::XDRScriptRegExpObject and what decoding it gave
    matchPairs,   \* a MatchPairs buffer its owner keeps from one use to the next
    templatesCreated, \* history: the template objects created so far (2: two or more)
    clone         \* the object RegExpObjectBuilder::clone made last, and the call that made it

vars == <<shared, alive, allocated, set_, matchResultTemplateObject_, gcPhase,
          preservingCode, atomMarked, codeMarked, tmplMarked, objTraced, objKey,
          objShared, guards, got, handedOut, last, interrupt, exec, parse, rendered,
          lastCall, xdr, matchPairs, templatesCreated, clone>>

\* What the registry, the collector and most of execute leave alone.
auxVars == <<parse, rendered, lastCall, xdr, matchPairs, templatesCreated, clone>>

---------------------------------------------------------------------------
(* Bounds *)

MaxRecords == 3

---------------------------------------------------------------------------
(* Flags, keys, slots *)

IgnoreCaseFlag == "IgnoreCase"
GlobalFlag == "Global"
MultilineFlag == "Multiline"
StickyFlag == "Sticky"

AllFlags == {IgnoreCaseFlag, GlobalFlag, MultilineFlag, StickyFlag}

LF == "\n"

\* The atoms and flag sets the registry is exercised with.
GcSources == {<<"a">>}
GcFlagSets == {{}, {StickyFlag}}
GcKeys == GcSources \X GcFlagSets

ExecSources == {<<"a">>}
ExecFlagSets == {{}, {StickyFlag}, {StickyFlag, MultilineFlag}}
ExecKeys == ExecSources \X ExecFlagSets

Keys == GcKeys \cup ExecKeys
Sources == {k[1] : k \in Keys}

Objects == {"o1"}
NoKey == <<>>

Ids == 1..MaxRecords

Normal == "Normal"
MatchOnly == "MatchOnly"
Modes == {Normal, MatchOnly}

\* RegExpShared::compilationArray, indexed by (mode, hasLatin1Chars).
Slots == Modes \X BOOLEAN

NoCode == [jitCode |-> FALSE, byteCode |-> FALSE]
NoCompilations == [s \in Slots |-> NoCode]

NoShared == [source |-> <<>>, flags |-> {}, parenCount |-> 0, canStringMatch |-> FALSE,
             marked_ |-> FALSE, compilationArray |-> NoCompilations, live |-> FALSE]

\* RegExpShared::RegExpShared(source, flags)
RegExpShared_ctor(source, flags) ==
    [source |-> source, flags |-> flags, parenCount |-> 0, canStringMatch |-> FALSE,
     marked_ |-> FALSE, compilationArray |-> NoCompilations, live |-> TRUE]

KeyOf(sh) == <<sh.source, sh.flags>>

sticky(sh) == StickyFlag \in sh.flags
multiline(sh) == MultilineFlag \in sh.flags
ignoreCase(sh) == IgnoreCaseFlag \in sh.flags

NoExec == [pc |-> "idle"]

NoOp == [op |-> "other"]

\* No history of the calls of execute is kept; it is kept and no call returned yet.
NoHistory == [kept |-> FALSE]
NoCallYet == [kept |-> TRUE, status |-> "none"]

\* ParseRegExpFlags was not called yet; toString was not called yet.
NoParse == [called |-> FALSE]
NoString == <<>>
NoXdr == [mode |-> "none"]
NoClone == [made |-> FALSE]
NoBuffer == [kind |-> "none"]

---------------------------------------------------------------------------
(* Tracing: RegExpShared::trace, the read barrier, the RegExpGuard root *)

\* Fault: a trace that never sets the mark bit.
RegExpShared_trace_marked_never(sh, isMarkingTracer) == sh.marked_

\* RegExpShared::trace, the mark bit: a marking tracer sets marked_.
RegExpShared_trace_marked(sh, isMarkingTracer) ==
    IF isMarkingTracer THEN TRUE ELSE sh.marked_

\* RegExpShared::trace, MarkString(source): the atoms a marking tracer marks.
RegExpShared_trace_source(sh, isMarkingTracer) ==
    IF isMarkingTracer /\ sh.source # <<>> THEN {sh.source} ELSE {}

\* RegExpShared::trace, MarkJitCode of every populated jitCode slot.
RegExpShared_trace_code(r, sh, isMarkingTracer) ==
    IF isMarkingTracer
    THEN {<<r, s>> : s \in {t \in Slots : sh.compilationArray[t].jitCode}}
    ELSE {}

\* shared, atomMarked and codeMarked after shared->trace(trc) on every id of S.
\* A deleted record is not traced here: doing so is a use after free, which
\* NoUseAfterFree below shows unreachable.
TracedShared(S, isMarkingTracer) ==
    [r \in Ids |-> IF r \in S /\ r \in alive
                   THEN [shared[r] EXCEPT !.marked_ =
                            RegExpShared_trace_marked(shared[r], isMarkingTracer)]
                   ELSE shared[r]]

TracedAtoms(S, isMarkingTracer) ==
    atomMarked \cup UNION {RegExpShared_trace_source(shared[r], isMarkingTracer) :
                              r \in S \cap alive}

TracedCode(S, isMarkingTracer) ==
    codeMarked \cup UNION {RegExpShared_trace_code(r, shared[r], isMarkingTracer) :
                              r \in S \cap alive}

\* zone->needsIncrementalBarrier(): the mutator runs while the zone is marking.
needsIncrementalBarrier == gcPhase = "mark"

\* Fault: no read barrier.
MaybeTraceRegExpShared_noBarrier(r) == {}

\* MaybeTraceRegExpShared: the ids traced by the barrier tracer (a marking tracer).
MaybeTraceRegExpShared(r) ==
    IF needsIncrementalBarrier THEN {r} ELSE {}

---------------------------------------------------------------------------
(* The registry: RegExpCompartment::get, RegExpObject::getShared *)

\* Fault: a lookup that never finds the entry.
lookupForAdd_neverHits(key) == {}

\* set_.lookupForAdd(key): the entries whose source and flags equal the key's.
lookupForAdd(key) == {r \in set_ : r \in alive /\ KeyOf(shared[r]) = key}

\* The lookup and insertion of RegExpCompartment::get, without the guard:
\* the entry found, after the read barrier, or a new RegExpShared added to set_.
get_lookupOrAdd(key, r) ==
    \/ /\ r \in lookupForAdd(key)
       /\ shared' = TracedShared(MaybeTraceRegExpShared(r), TRUE)
       /\ atomMarked' = TracedAtoms(MaybeTraceRegExpShared(r), TRUE)
       /\ codeMarked' = TracedCode(MaybeTraceRegExpShared(r), TRUE)
       /\ UNCHANGED <<alive, allocated, set_>>
    \/ /\ lookupForAdd(key) = {}
       /\ allocated < MaxRecords
       /\ r = allocated + 1
       /\ allocated' = r
       /\ alive' = alive \cup {r}
       /\ set_' = set_ \cup {r}
       /\ LET fresh == RegExpShared_ctor(key[1], key[2]) IN
          /\ shared' = [shared EXCEPT ![r] =
               [fresh EXCEPT !.marked_ =
                   IF r \in MaybeTraceRegExpShared(r)
                   THEN RegExpShared_trace_marked(fresh, TRUE) ELSE fresh.marked_]]
          /\ atomMarked' = atomMarked \cup
               (IF r \in MaybeTraceRegExpShared(r)
                THEN RegExpShared_trace_source(fresh, TRUE) ELSE {})
       /\ UNCHANGED codeMarked

\* RegExpCompartment::get(cx, source, flags, g) succeeding with g initialised to r:
\* on a hit r is the entry found, after the read barrier; on a miss r is a new
\* RegExpShared, added to set_ and then traced by the barrier.
get_returns(key, r) ==
    /\ get_lookupOrAdd(key, r)
    /\ guards' = guards \cup {r}
    /\ got' = [got EXCEPT ![key] = r]
    /\ handedOut' = IF needsIncrementalBarrier THEN handedOut \cup {r} ELSE handedOut
    /\ last' = [op |-> "get", key |-> key, ret |-> r, before |-> got[key],
                beforeAlive |-> got[key] \in alive, barrier |-> needsIncrementalBarrier]
    /\ UNCHANGED auxVars

\* RegExpCompartment::get called by the embedding with a guard of its own.
RegExpCompartment_get(key) ==
    /\ exec.pc = "idle"
    /\ \E r \in Ids : get_returns(key, r)
    /\ UNCHANGED <<matchResultTemplateObject_, gcPhase, preservingCode, tmplMarked,
                   objTraced, objKey, objShared, interrupt, exec>>

\* Fault: a get that fails to add the RegExpShared it has made and leaves it
\* allocated.
RegExpCompartment_get_fails_leaksRecord(key, cause) ==
    /\ exec.pc = "idle"
    /\ lookupForAdd(key) = {}
    /\ IF cause = "add" /\ allocated < MaxRecords
       THEN /\ allocated' = allocated + 1
            /\ alive' = alive \cup {allocated + 1}
            /\ shared' = [shared EXCEPT ![allocated + 1] = RegExpShared_ctor(key[1], key[2])]
       ELSE UNCHANGED <<shared, alive, allocated>>
    /\ last' = [op |-> "getFails", cause |-> cause, key |-> key]
    /\ UNCHANGED auxVars
    /\ UNCHANGED <<set_, matchResultTemplateObject_, gcPhase,
                   preservingCode, atomMarked, codeMarked, tmplMarked, objTraced, objKey,
                   objShared, guards, got, handedOut, interrupt, exec>>

\* RegExpCompartment::get(cx, source, flags, g) returning false. cause "alloc":
\* cx->new_<RegExpShared> gives no record; cause "add": set_.add fails and the
\* ScopedJSDeletePtr deletes the record made for the call, which nothing else
\* has seen. The lookup found nothing, the guard is not initialised.
RegExpCompartment_get_fails(key, cause) ==
    /\ exec.pc = "idle"
    /\ lookupForAdd(key) = {}
    /\ last' = [op |-> "getFails", cause |-> cause, key |-> key]
    /\ UNCHANGED auxVars
    /\ UNCHANGED <<shared, alive, allocated, set_, matchResultTemplateObject_, gcPhase,
                   preservingCode, atomMarked, codeMarked, tmplMarked, objTraced, objKey,
                   objShared, guards, got, handedOut, interrupt, exec>>

\* An init that leaves the RegExpShared of the object attached.
RegExpObject_init_keepsShared(o, key) ==
    /\ exec.pc = "idle"
    /\ UNCHANGED objShared
    /\ objKey' = [objKey EXCEPT ![o] = key]
    /\ last' = NoOp
    /\ UNCHANGED auxVars
    /\ UNCHANGED handedOut
    /\ UNCHANGED <<shared, alive, allocated, set_, matchResultTemplateObject_, gcPhase,
                   preservingCode, atomMarked, codeMarked, tmplMarked, objTraced,
                   guards, got, interrupt, exec>>

\* RegExpObject::init(cx, source, flags): forgets the RegExpShared, sets the slots.
RegExpObject_init(o, key) ==
    /\ exec.pc = "idle"
    /\ objShared' = [objShared EXCEPT ![o] = 0]
    /\ objKey' = [objKey EXCEPT ![o] = key]
    /\ last' = NoOp
    /\ UNCHANGED auxVars
    /\ UNCHANGED handedOut
    /\ UNCHANGED <<shared, alive, allocated, set_, matchResultTemplateObject_, gcPhase,
                   preservingCode, atomMarked, codeMarked, tmplMarked, objTraced,
                   guards, got, interrupt, exec>>

\* RegExpObject::createShared: get() by the object's own source and flags, then setShared.
RegExpObject_createShared(o) ==
    /\ objShared[o] = 0
    /\ \E r \in Ids :
          /\ get_returns(objKey[o], r)
          /\ objShared' = [objShared EXCEPT ![o] = r]
    /\ UNCHANGED <<matchResultTemplateObject_, gcPhase, preservingCode, tmplMarked,
                   objTraced, objKey, interrupt, exec>>

\* RegExpObject::getShared: the object's record after the read barrier, or createShared.
RegExpObject_getShared(o) ==
    /\ exec.pc = "idle"
    /\ objKey[o] # NoKey
    /\ \/ /\ objShared[o] # 0
          /\ shared' = TracedShared(MaybeTraceRegExpShared(objShared[o]), TRUE)
          /\ atomMarked' = TracedAtoms(MaybeTraceRegExpShared(objShared[o]), TRUE)
          /\ codeMarked' = TracedCode(MaybeTraceRegExpShared(objShared[o]), TRUE)
          /\ guards' = guards \cup {objShared[o]}
          /\ handedOut' = IF needsIncrementalBarrier THEN handedOut \cup {objShared[o]}
                          ELSE handedOut
          /\ last' = [op |-> "getShared", ret |-> objShared[o],
                      barrier |-> needsIncrementalBarrier]
          /\ UNCHANGED auxVars
          /\ UNCHANGED <<alive, allocated, set_, matchResultTemplateObject_, gcPhase,
                         preservingCode, tmplMarked, objTraced, objKey, objShared,
                         got, interrupt, exec>>
       \/ RegExpObject_createShared(o)

\* ~RegExpGuard: the caller's guard goes out of scope.
RegExpGuard_release(r) ==
    /\ exec.pc = "idle"
    /\ r \in guards
    /\ guards' = guards \ {r}
    /\ last' = NoOp
    /\ UNCHANGED auxVars
    /\ UNCHANGED handedOut
    /\ UNCHANGED <<shared, alive, allocated, set_, matchResultTemplateObject_, gcPhase,
                   preservingCode, atomMarked, codeMarked, tmplMarked, objTraced,
                   objKey, objShared, got, interrupt, exec>>

\* A createMatchResultTemplateObject that stores a template object even when
\* building it failed.
createMatchResultTemplateObject_storesOnFailure(ok) ==
    /\ exec.pc = "idle"
    /\ ~matchResultTemplateObject_
    /\ matchResultTemplateObject_' = TRUE
    /\ tmplMarked' = (gcPhase = "mark")
    /\ templatesCreated' = IF templatesCreated = 0 THEN 1 ELSE 2
    /\ last' = [op |-> "createTemplate", ok |-> ok]
    /\ UNCHANGED <<parse, rendered, lastCall, xdr, matchPairs, clone>>
    /\ UNCHANGED handedOut
    /\ UNCHANGED <<shared, alive, allocated, set_, gcPhase, preservingCode, atomMarked,
                   codeMarked, objTraced, objKey, objShared, guards, got, interrupt, exec>>

\* RegExpCompartment::createMatchResultTemplateObject: the template, or nullptr
\* when an allocation or a property definition fails.
createMatchResultTemplateObject(ok) ==
    /\ exec.pc = "idle"
    /\ ~matchResultTemplateObject_
    /\ matchResultTemplateObject_' = ok
    /\ tmplMarked' = (ok /\ gcPhase = "mark")
    /\ templatesCreated' = IF ~ok THEN templatesCreated
                           ELSE IF templatesCreated = 0 THEN 1 ELSE 2
    /\ last' = [op |-> "createTemplate", ok |-> ok]
    /\ UNCHANGED <<parse, rendered, lastCall, xdr, matchPairs, clone>>
    /\ UNCHANGED handedOut
    /\ UNCHANGED <<shared, alive, allocated, set_, gcPhase, preservingCode, atomMarked,
                   codeMarked, objTraced, objKey, objShared, guards, got, interrupt, exec>>

---------------------------------------------------------------------------
(* Sweeping: RegExpCompartment::sweep *)

\* gc::IsStringAboutToBeFinalized: the zone is being collected and the atom is unmarked.
IsStringAboutToBeFinalized(a) == gcPhase = "mark" /\ a \notin atomMarked

\* gc::IsJitCodeAboutToBeFinalized
IsJitCodeAboutToBeFinalized(r, s) == gcPhase = "mark" /\ <<r, s>> \notin codeMarked

\* gc::IsObjectAboutToBeFinalized of the template object
IsObjectAboutToBeFinalized == gcPhase = "mark" /\ ~tmplMarked

\* Fault: a keep flag that forgets the compiled code.
sweep_keep_ignoresJitCode(r) ==
    /\ shared[r].marked_
    /\ ~IsStringAboutToBeFinalized(shared[r].source)

\* Fault: a keep flag that forgets the mark bit.
sweep_keep_ignoresMark(r) ==
    /\ ~IsStringAboutToBeFinalized(shared[r].source)
    /\ ~\E s \in Slots : /\ shared[r].compilationArray[s].jitCode
                         /\ IsJitCodeAboutToBeFinalized(r, s)

\* The keep flag sweep computes for one entry.
sweep_keep(r) ==
    /\ shared[r].marked_
    /\ ~IsStringAboutToBeFinalized(shared[r].source)
    /\ ~\E s \in Slots : /\ shared[r].compilationArray[s].jitCode
                         /\ IsJitCodeAboutToBeFinalized(r, s)

\* The entries sweep leaves in the set.
sweep_retained(isHeapCompacting) ==
    {r \in set_ : sweep_keep(r) \/ isHeapCompacting}

\* Fault: a sweep that deletes a record and leaves its entry in the set.
RegExpCompartment_sweep_keepsEntry(isHeapCompacting) ==
    LET kept == sweep_retained(isHeapCompacting) IN
    /\ set_' = set_
    /\ alive' = alive \ (set_ \ kept)
    /\ shared' = [r \in Ids |->
                    IF r \in kept THEN [shared[r] EXCEPT !.marked_ = FALSE]
                    ELSE IF r \in set_ THEN NoShared
                    ELSE shared[r]]
    /\ matchResultTemplateObject_' =
          IF matchResultTemplateObject_ /\ IsObjectAboutToBeFinalized
          THEN FALSE ELSE matchResultTemplateObject_

\* A sweep that leaves the mark on the records it keeps.
RegExpCompartment_sweep_keepsMarks(isHeapCompacting) ==
    LET kept == sweep_retained(isHeapCompacting) IN
    /\ set_' = kept
    /\ alive' = alive \ (set_ \ kept)
    /\ shared' = [r \in Ids |->
                    IF r \in kept THEN shared[r]
                    ELSE IF r \in set_ THEN NoShared
                    ELSE shared[r]]
    /\ matchResultTemplateObject_' =
          IF matchResultTemplateObject_ /\ IsObjectAboutToBeFinalized
          THEN FALSE ELSE matchResultTemplateObject_

\* RegExpCompartment::sweep(rt): every entry is either kept with its mark
\* cleared, or deleted and removed; then the template object is cleared when
\* it is about to be finalized.
RegExpCompartment_sweep(isHeapCompacting) ==
    LET kept == sweep_retained(isHeapCompacting) IN
    /\ set_' = kept
    /\ alive' = alive \ (set_ \ kept)
    /\ shared' = [r \in Ids |->
                    IF r \in kept THEN [shared[r] EXCEPT !.marked_ = FALSE]
                    ELSE IF r \in set_ THEN NoShared
                    ELSE shared[r]]
    /\ matchResultTemplateObject_' =
          IF matchResultTemplateObject_ /\ IsObjectAboutToBeFinalized
          THEN FALSE ELSE matchResultTemplateObject_

---------------------------------------------------------------------------
(* RegExpObject::trace *)

\* A trace that neither unlinks the object from its RegExpShared nor traces
\* the RegExpShared when the collector marks a zone that does not preserve code.
RegExpObject_trace_leavesAttached(o, isHeapBusy, isMarkingTracer, marksSlots) ==
    LET sh == objShared[o]
        slots == IF marksSlots /\ objKey[o] # NoKey THEN {objKey[o][1]} ELSE {}
    IN
    IF sh = 0
    THEN /\ atomMarked' = atomMarked \cup slots
         /\ UNCHANGED <<shared, codeMarked, objShared>>
    ELSE IF isHeapBusy /\ isMarkingTracer /\ ~preservingCode
    THEN /\ UNCHANGED objShared
         /\ atomMarked' = atomMarked \cup slots
         /\ UNCHANGED <<shared, codeMarked>>
    ELSE /\ shared' = TracedShared({sh}, isMarkingTracer)
         /\ atomMarked' = TracedAtoms({sh}, isMarkingTracer) \cup slots
         /\ codeMarked' = TracedCode({sh}, isMarkingTracer)
         /\ UNCHANGED objShared

\* RegExpObject::trace(trc, obj): a marking tracer of a busy heap unlinks the
\* object from its RegExpShared unless the zone preserves code; every other
\* tracer traces the RegExpShared.
RegExpObject_trace(o, isHeapBusy, isMarkingTracer, marksSlots) ==
    LET sh == objShared[o]
        slots == IF marksSlots /\ objKey[o] # NoKey THEN {objKey[o][1]} ELSE {}
    IN
    IF sh = 0
    THEN /\ atomMarked' = atomMarked \cup slots
         /\ UNCHANGED <<shared, codeMarked, objShared>>
    ELSE IF isHeapBusy /\ isMarkingTracer /\ ~preservingCode
    THEN /\ objShared' = [objShared EXCEPT ![o] = 0]
         /\ atomMarked' = atomMarked \cup slots
         /\ UNCHANGED <<shared, codeMarked>>
    ELSE /\ shared' = TracedShared({sh}, isMarkingTracer)
         /\ atomMarked' = TracedAtoms({sh}, isMarkingTracer) \cup slots
         /\ codeMarked' = TracedCode({sh}, isMarkingTracer)
         /\ UNCHANGED objShared

---------------------------------------------------------------------------
(* The collector, as far as the registry sees it *)

\* The places where the mutator can be when a collection slice runs: between
\* operations, inside compile (an allocation) and inside the interrupt callback.
AtGcPoint == exec.pc \in {"idle", "compile", "poll"}

\* A collection of the zone starts: everything is unmarked, then the roots are
\* marked, the RegExpGuards on the stack among them (RegExpGuard::trace calls
\* RegExpShared::trace on its record).
GC_start(preserving) ==
    /\ gcPhase = "idle"
    /\ AtGcPoint
    /\ gcPhase' = "mark"
    /\ preservingCode' = preserving
    /\ shared' = TracedShared(guards, TRUE)
    /\ atomMarked' = UNION {RegExpShared_trace_source(shared[r], TRUE) : r \in guards \cap alive}
    /\ codeMarked' = UNION {RegExpShared_trace_code(r, shared[r], TRUE) : r \in guards \cap alive}
    /\ tmplMarked' = FALSE
    /\ objTraced' = {}
    /\ handedOut' = {}
    /\ last' = NoOp
    /\ UNCHANGED auxVars
    /\ UNCHANGED <<alive, allocated, set_, matchResultTemplateObject_, objKey,
                   objShared, guards, got, interrupt, exec>>

\* Marking reaches a RegExpObject: its class trace hook runs with the marking
\* tracer, and its slots (the source atom among them) are marked.
GC_markObject(o) ==
    /\ gcPhase = "mark"
    /\ AtGcPoint
    /\ o \notin objTraced
    /\ RegExpObject_trace(o, TRUE, TRUE, TRUE)
    /\ objTraced' = objTraced \cup {o}
    /\ last' = NoOp
    /\ UNCHANGED auxVars
    /\ UNCHANGED handedOut
    /\ UNCHANGED <<alive, allocated, set_, matchResultTemplateObject_, gcPhase,
                   preservingCode, tmplMarked, objKey, guards, got, interrupt, exec>>

\* Marking reaches an atom through a referent outside the model (a script, a string).
GC_markAtom(a) ==
    /\ gcPhase = "mark"
    /\ AtGcPoint
    /\ a \notin atomMarked
    /\ atomMarked' = atomMarked \cup {a}
    /\ last' = NoOp
    /\ UNCHANGED auxVars
    /\ UNCHANGED handedOut
    /\ UNCHANGED <<shared, alive, allocated, set_, matchResultTemplateObject_, gcPhase,
                   preservingCode, codeMarked, tmplMarked, objTraced, objKey,
                   objShared, guards, got, interrupt, exec>>

\* Marking reaches the template object (jitcode or a script refers to it).
GC_markTemplate ==
    /\ gcPhase = "mark"
    /\ AtGcPoint
    /\ matchResultTemplateObject_
    /\ ~tmplMarked
    /\ tmplMarked' = TRUE
    /\ last' = NoOp
    /\ UNCHANGED auxVars
    /\ UNCHANGED handedOut
    /\ UNCHANGED <<shared, alive, allocated, set_, matchResultTemplateObject_, gcPhase,
                   preservingCode, atomMarked, codeMarked, objTraced, objKey,
                   objShared, guards, got, interrupt, exec>>

\* History: what a sweep found before it ran.
SweepSaw(isHeapCompacting) ==
    [op |-> "sweep", compacting |-> isHeapCompacting, pre |-> set_,
     marked |-> {r \in set_ : shared[r].marked_},
     sourceDying |-> {r \in set_ : gcPhase = "mark" /\ shared[r].source \notin atomMarked},
     codeDying |-> {r \in set_ : gcPhase = "mark" /\
                      \E s \in Slots : /\ shared[r].compilationArray[s].jitCode
                                        /\ <<r, s>> \notin codeMarked},
     referenced |-> {r \in set_ : r \in guards \/ \E o \in Objects : objShared[o] = r},
     handedOut |-> handedOut,
     inExecute |-> exec.pc # "idle",
     template |-> matchResultTemplateObject_,
     templateDying |-> gcPhase = "mark" /\ ~tmplMarked]

\* What the collector forgets when a collection ends.
GC_reset ==
    /\ gcPhase' = "idle"
    /\ preservingCode' = FALSE
    /\ atomMarked' = {}
    /\ codeMarked' = {}
    /\ tmplMarked' = FALSE
    /\ objTraced' = {}
    /\ handedOut' = {}

\* The collection ends: every reachable object has been traced, the compartment
\* is swept and whatever is unmarked is finalized.
GC_sweep ==
    /\ gcPhase = "mark"
    /\ AtGcPoint
    /\ objTraced = Objects
    /\ RegExpCompartment_sweep(FALSE)
    /\ last' = SweepSaw(FALSE)
    /\ UNCHANGED auxVars
    /\ GC_reset
    /\ UNCHANGED <<allocated, objKey, objShared, guards, got, interrupt, exec>>

\* The compacting phase sweeps the compartment again with isHeapCompacting():
\* nothing is about to be finalized then.
GC_sweepCompacting ==
    /\ gcPhase = "idle"
    /\ AtGcPoint
    /\ RegExpCompartment_sweep(TRUE)
    /\ last' = SweepSaw(TRUE)
    /\ UNCHANGED auxVars
    /\ UNCHANGED <<handedOut, allocated, gcPhase, preservingCode, atomMarked, codeMarked,
                   tmplMarked, objTraced, objKey, objShared, guards, got, interrupt, exec>>

\* The collection is abandoned before it sweeps (a full collection restarts an
\* incremental one, or only other zones are collected): the mark bits of the
\* records stay as they are.
GC_abort ==
    /\ gcPhase = "mark"
    /\ AtGcPoint
    /\ GC_reset
    /\ last' = NoOp
    /\ UNCHANGED auxVars
    /\ UNCHANGED <<shared, alive, allocated, set_, matchResultTemplateObject_, objKey,
                   objShared, guards, got, interrupt, exec>>

\* A pre-write barrier on a RegExpObject during incremental marking: the trace
\* hook runs with the barrier tracer and the heap is not busy.
RegExpObject_writeBarrier(o) ==
    /\ gcPhase = "mark"
    /\ exec.pc = "idle"
    /\ RegExpObject_trace(o, FALSE, TRUE, FALSE)
    /\ last' = NoOp
    /\ UNCHANGED auxVars
    /\ UNCHANGED handedOut
    /\ UNCHANGED <<alive, allocated, set_, matchResultTemplateObject_, gcPhase,
                   preservingCode, tmplMarked, objTraced, objKey, guards, got,
                   interrupt, exec>>

\* TraceRuntime: the heap is busy and the tracer is not a marking tracer.
RegExpObject_traceRuntime(o) ==
    /\ gcPhase = "idle"
    /\ AtGcPoint
    /\ RegExpObject_trace(o, TRUE, FALSE, FALSE)
    /\ last' = NoOp
    /\ UNCHANGED auxVars
    /\ UNCHANGED handedOut
    /\ UNCHANGED <<alive, allocated, set_, matchResultTemplateObject_, gcPhase,
                   preservingCode, tmplMarked, objTraced, objKey, guards, got,
                   interrupt, exec>>

---------------------------------------------------------------------------
(* Compilation: RegExpShared::compile, compileIfNecessary *)

\* The characters StringHasRegExpMetaChars looks for.
MetaChars == {"\\", "^", "$", "+", "*", "?", "(", ")", "[", "]", "{", "}", "|", "."}

StringHasRegExpMetaChars(pattern) ==
    \E i \in 1..Len(pattern) : pattern[i] \in MetaChars

\* irregexp::ParsePattern on the patterns of the model: the parentheses balance.
ParsePatternOk(pattern) ==
    Cardinality({i \in 1..Len(pattern) : pattern[i] = "("}) =
    Cardinality({i \in 1..Len(pattern) : pattern[i] = ")"})

\* RegExpCompileData::capture_count: the groups that are not (?: groups.
capture_count(pattern) ==
    Cardinality({i \in 1..Len(pattern) :
                    /\ pattern[i] = "("
                    /\ ~(i < Len(pattern) /\ pattern[i + 1] = "?")})

\* The source compile hands to the parser: a sticky source is wrapped in ^(?: ).
fakeySource(source) == <<"^", "(", "?", ":">> \o source \o <<")">>

compiledPattern(sh) == IF sticky(sh) THEN fakeySource(sh.source) ELSE sh.source

\* RegExpShared::isCompiled(mode, latin1)
isCompiled(sh, slot) ==
    sh.compilationArray[slot].jitCode \/ sh.compilationArray[slot].byteCode

\* A compile that also stores code in the slot of the call when it takes the
\* pattern for a literal.
RegExpShared_compile_pattern_literalStoresCode(sh, pattern, slot, code) ==
    IF ~ignoreCase(sh) /\ ~StringHasRegExpMetaChars(pattern)
    THEN [ok |-> TRUE,
          sh |-> [sh EXCEPT !.canStringMatch = TRUE, !.parenCount = 0,
                            !.compilationArray[slot] =
                                [jitCode |-> code = "jit", byteCode |-> code = "byte"]]]
    ELSE IF ~ParsePatternOk(pattern)
    THEN [ok |-> FALSE, sh |-> sh]
    ELSE LET parsed == [sh EXCEPT !.parenCount = capture_count(pattern)] IN
         IF code = "empty"
         THEN [ok |-> FALSE, sh |-> parsed]
         ELSE [ok |-> TRUE,
               sh |-> [parsed EXCEPT !.compilationArray[slot] =
                          [jitCode |-> code = "jit", byteCode |-> code = "byte"]]]

\* A compile that returns true when CompilePattern gave no code.
RegExpShared_compile_pattern_okWhenEmpty(sh, pattern, slot, code) ==
    IF ~ignoreCase(sh) /\ ~StringHasRegExpMetaChars(pattern)
    THEN [ok |-> TRUE, sh |-> [sh EXCEPT !.canStringMatch = TRUE, !.parenCount = 0]]
    ELSE IF ~ParsePatternOk(pattern)
    THEN [ok |-> FALSE, sh |-> sh]
    ELSE LET parsed == [sh EXCEPT !.parenCount = capture_count(pattern)] IN
         [ok |-> TRUE,
          sh |-> [parsed EXCEPT !.compilationArray[slot] =
                     [jitCode |-> code = "jit", byteCode |-> code = "byte"]]]

\* Fault: a compile that takes the literal path under the ignore-case flag too.
RegExpShared_compile_pattern_literalAnyCase(sh, pattern, slot, code) ==
    IF ~StringHasRegExpMetaChars(pattern)
    THEN [ok |-> TRUE, sh |-> [sh EXCEPT !.canStringMatch = TRUE, !.parenCount = 0]]
    ELSE IF ~ParsePatternOk(pattern)
    THEN [ok |-> FALSE, sh |-> sh]
    ELSE LET parsed == [sh EXCEPT !.parenCount = capture_count(pattern)] IN
         IF code = "empty"
         THEN [ok |-> FALSE, sh |-> parsed]
         ELSE [ok |-> TRUE,
               sh |-> [parsed EXCEPT !.compilationArray[slot] =
                          [jitCode |-> code = "jit", byteCode |-> code = "byte"]]]

\* Fault: a compile that stores the group count once the code is there.
RegExpShared_compile_pattern_countsAtSuccess(sh, pattern, slot, code) ==
    IF ~ignoreCase(sh) /\ ~StringHasRegExpMetaChars(pattern)
    THEN [ok |-> TRUE, sh |-> [sh EXCEPT !.canStringMatch = TRUE, !.parenCount = 0]]
    ELSE IF ~ParsePatternOk(pattern)
    THEN [ok |-> FALSE, sh |-> sh]
    ELSE IF code = "empty"
    THEN [ok |-> FALSE, sh |-> sh]
    ELSE [ok |-> TRUE,
          sh |-> [sh EXCEPT !.parenCount = capture_count(pattern),
                            !.compilationArray[slot] =
                                [jitCode |-> code = "jit", byteCode |-> code = "byte"]]]

\* RegExpShared::compile(cx, pattern, input, mode): [ok, sh], sh the record as the
\* call leaves it. code is what irregexp::CompilePattern produces: "jit",
\* "byte" or "empty".
RegExpShared_compile_pattern(sh, pattern, slot, code) ==
    IF ~ignoreCase(sh) /\ ~StringHasRegExpMetaChars(pattern)
    THEN [ok |-> TRUE, sh |-> [sh EXCEPT !.canStringMatch = TRUE, !.parenCount = 0]]
    ELSE IF ~ParsePatternOk(pattern)
    THEN [ok |-> FALSE, sh |-> sh]
    ELSE LET parsed == [sh EXCEPT !.parenCount = capture_count(pattern)] IN
         IF code = "empty"
         THEN [ok |-> FALSE, sh |-> parsed]
         ELSE [ok |-> TRUE,
               sh |-> [parsed EXCEPT !.compilationArray[slot] =
                          [jitCode |-> code = "jit", byteCode |-> code = "byte"]]]

\* RegExpShared::compile(cx, input, mode): atomOk is whether the StringBuffer
\* and the atom of the wrapped sticky source could be allocated.
RegExpShared_compile(sh, slot, atomOk, code) ==
    IF ~sticky(sh)
    THEN RegExpShared_compile_pattern(sh, sh.source, slot, code)
    ELSE IF ~atomOk
    THEN [ok |-> FALSE, sh |-> sh]
    ELSE RegExpShared_compile_pattern(sh, fakeySource(sh.source), slot, code)

\* A compileIfNecessary that takes the record for compiled as soon as any of
\* its slots holds code, whatever the mode and character width of the call.
RegExpShared_compileIfNecessary_anySlot(sh, slot, atomOk, code) ==
    IF (\E s \in Slots : isCompiled(sh, s)) \/ sh.canStringMatch
    THEN [ok |-> TRUE, sh |-> sh]
    ELSE RegExpShared_compile(sh, slot, atomOk, code)

\* Fault: a compileIfNecessary that compiles whether or not the slot holds code.
RegExpShared_compileIfNecessary_always(sh, slot, atomOk, code) ==
    IF sh.canStringMatch
    THEN [ok |-> TRUE, sh |-> sh]
    ELSE RegExpShared_compile(sh, slot, atomOk, code)

\* RegExpShared::compileIfNecessary
RegExpShared_compileIfNecessary(sh, slot, atomOk, code) ==
    IF isCompiled(sh, slot) \/ sh.canStringMatch
    THEN [ok |-> TRUE, sh |-> sh]
    ELSE RegExpShared_compile(sh, slot, atomOk, code)

\* RegExpShared::pairCount()
pairCount(sh) == sh.parenCount + 1

---------------------------------------------------------------------------
(* The matcher: what the code generated for a pattern finds in the characters *)

\* A character of the pattern that is syntax of the patterns of the model:
\* a parenthesis, the ^ assertion, and the ?: of a (?: group.
IsSyntaxAt(pattern, i) ==
    \/ pattern[i] \in {"(", ")", "^"}
    \/ pattern[i] = "?" /\ i > 1 /\ pattern[i - 1] = "("
    \/ pattern[i] = ":" /\ i > 2 /\ pattern[i - 1] = "?" /\ pattern[i - 2] = "("

LiteralPositions(pattern) == {i \in 1..Len(pattern) : ~IsSyntaxAt(pattern, i)}

\* How many literal characters stand before position i of the pattern.
LiteralsBefore(pattern, i) == Cardinality({j \in LiteralPositions(pattern) : j < i})

\* The k-th literal character of the pattern.
LiteralAt(pattern, k) ==
    pattern[CHOOSE i \in LiteralPositions(pattern) : LiteralsBefore(pattern, i) = k - 1]

PatternLength(pattern) == Cardinality(LiteralPositions(pattern))

\* The pattern starts with the ^ assertion.
PatternAnchored(pattern) == Len(pattern) >= 1 /\ pattern[1] = "^"

\* The positions of the capturing parentheses, and the parenthesis closing one.
CaptureOpens(pattern) ==
    {i \in 1..Len(pattern) :
        pattern[i] = "(" /\ ~(i < Len(pattern) /\ pattern[i + 1] = "?")}

CaptureClose(pattern, i) ==
    CHOOSE j \in (i + 1)..Len(pattern) :
        /\ pattern[j] = ")"
        /\ \A l \in (i + 1)..(j - 1) : pattern[l] # ")"

\* Case folding under the ignore-case flag.
Canonicalize(c, ic) == IF ic /\ c = "A" THEN "a" ELSE c

\* The ^ assertion at position p (from 0) of the characters handed to the
\* matcher: the start of the characters, and under the multiline flag also
\* the position after a line terminator.
AssertionHolds(pattern, multi, chars, p) ==
    \/ ~PatternAnchored(pattern)
    \/ p = 0
    \/ multi /\ chars[p] = LF

MatchesAt(sh, chars, p, length) ==
    LET pattern == compiledPattern(sh) IN
    /\ p + PatternLength(pattern) <= length
    /\ AssertionHolds(pattern, multiline(sh), chars, p)
    /\ \A k \in 1..PatternLength(pattern) :
          Canonicalize(chars[p + k], ignoreCase(sh)) =
          Canonicalize(LiteralAt(pattern, k), ignoreCase(sh))

\* The first position at or after start where the pattern matches, or -1.
FirstMatch(sh, chars, start, length) ==
    LET found == {p \in start..length : MatchesAt(sh, chars, p, length)} IN
    IF found = {} THEN -1
    ELSE CHOOSE p \in found : \A q \in found : p <= q

Pair(a, b) == [start |-> a, limit |-> b]

\* The pairs the matcher writes for a match at p: the whole match, then one
\* pair per capturing group.
MatchedPairs(sh, p, n) ==
    LET pattern == compiledPattern(sh) IN
    [i \in 1..n |->
        IF i = 1
        THEN Pair(p, p + PatternLength(pattern))
        ELSE LET open == CHOOSE o \in CaptureOpens(pattern) :
                            Cardinality({q \in CaptureOpens(pattern) : q < o}) = i - 2
             IN Pair(p + LiteralsBefore(pattern, open),
                     p + LiteralsBefore(pattern, CaptureClose(pattern, open)))]

\* StringFindPattern(input, source, start): the first occurrence of the source
\* text at or after start, or -1.
StringFindPattern(chars, source, start) ==
    LET found == {p \in start..(Len(chars) - Len(source)) :
                     \A k \in 1..Len(source) : chars[p + k] = source[k]} IN
    IF found = {} THEN -1
    ELSE CHOOSE p \in found : \A q \in found : p <= q

---------------------------------------------------------------------------
(* MatchPairs *)

\* The matches argument of execute: nullptr, or a MatchPairs.
\* kind is the class of the buffer: "scoped" (ScopedMatchPairs, storage from a
\* LifoAlloc scope) or "vector" (VectorMatchPairs).
NoMatches == [null |-> TRUE, kind |-> "scoped", pairCount_ |-> 0, pairs |-> <<>>]
FreshMatchPairs == [null |-> FALSE, kind |-> "scoped", pairCount_ |-> 0, pairs |-> <<>>]
FreshVectorMatchPairs == [null |-> FALSE, kind |-> "vector", pairCount_ |-> 0, pairs |-> <<>>]

\* Fault: a scoped buffer that takes the count of every request.
ScopedMatchPairs_allocOrExpandArray_resizes(m, n, allocOk, junk) ==
    IF ~allocOk
    THEN [ok |-> FALSE, asserted |-> FALSE, m |-> m]
    ELSE [ok |-> TRUE, asserted |-> FALSE,
          m |-> [m EXCEPT !.pairCount_ = n, !.pairs = [i \in 1..n |-> junk]]]

\* ScopedMatchPairs::allocOrExpandArray: [ok, asserted, m]. asserted: the
\* request is for another count than the buffer has, MOZ_ASSERT(pairCount_ ==
\* pairCount) fails. The storage is not initialised: junk is what it happens
\* to hold.
ScopedMatchPairs_allocOrExpandArray(m, n, allocOk, junk) ==
    IF m.pairCount_ # 0
    THEN [ok |-> TRUE, asserted |-> m.pairCount_ # n, m |-> m]
    ELSE IF ~allocOk
    THEN [ok |-> FALSE, asserted |-> FALSE, m |-> m]
    ELSE [ok |-> TRUE, asserted |-> FALSE,
          m |-> [m EXCEPT !.pairCount_ = n, !.pairs = [i \in 1..n |-> junk]]]

\* Fault: a vector buffer that keeps the count it has.
VectorMatchPairs_allocOrExpandArray_keepsCount(m, n, allocOk, junk) ==
    IF ~allocOk
    THEN [ok |-> FALSE, asserted |-> FALSE, m |-> m]
    ELSE IF m.pairCount_ # 0
    THEN [ok |-> TRUE, asserted |-> FALSE, m |-> m]
    ELSE [ok |-> TRUE, asserted |-> FALSE,
          m |-> [m EXCEPT !.pairCount_ = n, !.pairs = [i \in 1..n |-> junk]]]

\* VectorMatchPairs::allocOrExpandArray: the vector is resized without
\* initialising what is new, and the count is the count asked for.
VectorMatchPairs_allocOrExpandArray(m, n, allocOk, junk) ==
    IF ~allocOk
    THEN [ok |-> FALSE, asserted |-> FALSE, m |-> m]
    ELSE [ok |-> TRUE, asserted |-> FALSE,
          m |-> [m EXCEPT !.pairCount_ = n,
                          !.pairs = [i \in 1..n |->
                                        IF i <= m.pairCount_ THEN m.pairs[i] ELSE junk]]]

\* The virtual MatchPairs::allocOrExpandArray
allocOrExpandArray(m, n, allocOk, junk) ==
    IF m.kind = "vector" THEN VectorMatchPairs_allocOrExpandArray(m, n, allocOk, junk)
    ELSE ScopedMatchPairs_allocOrExpandArray(m, n, allocOk, junk)

\* Fault: an initArray that leaves the first pair as it finds it.
MatchPairs_initArray_skipsFirst(m, n, allocOk, junk) ==
    LET a == allocOrExpandArray(m, n, allocOk, junk) IN
    IF n = 0 THEN [ok |-> FALSE, asserted |-> TRUE, m |-> m]
    ELSE IF a.asserted \/ ~a.ok THEN a
    ELSE [a EXCEPT !.m.pairs = [i \in 1..a.m.pairCount_ |->
                                   IF 1 < i /\ i <= n THEN [start |-> -1, limit |-> -1]
                                   ELSE a.m.pairs[i]]]

\* MatchPairs::initArray(pairCount): MOZ_ASSERT(pairCount > 0), then the
\* storage, then every pair at (-1, -1).
MatchPairs_initArray(m, n, allocOk, junk) ==
    LET a == allocOrExpandArray(m, n, allocOk, junk) IN
    IF n = 0 THEN [ok |-> FALSE, asserted |-> TRUE, m |-> m]
    ELSE IF a.asserted \/ ~a.ok THEN a
    ELSE [a EXCEPT !.m.pairs = [i \in 1..a.m.pairCount_ |->
                                   IF i <= n THEN [start |-> -1, limit |-> -1]
                                   ELSE a.m.pairs[i]]]

\* Fault: a displace that adds the displacement twice.
MatchPairs_displace_twice(m, disp) ==
    IF disp = 0 THEN m
    ELSE [m EXCEPT !.pairs =
            [i \in 1..m.pairCount_ |->
                Pair(m.pairs[i].start + (IF m.pairs[i].start < 0 THEN 0 ELSE disp + disp),
                     m.pairs[i].limit + (IF m.pairs[i].limit < 0 THEN 0 ELSE disp + disp))]]

\* Fault: a displace that moves the negative offsets too.
MatchPairs_displace_movesNegative(m, disp) ==
    IF disp = 0 THEN m
    ELSE [m EXCEPT !.pairs =
            [i \in 1..m.pairCount_ |->
                Pair(m.pairs[i].start + disp, m.pairs[i].limit + disp)]]

\* MatchPairs::displace(disp)
MatchPairs_displace(m, disp) ==
    IF disp = 0 THEN m
    ELSE [m EXCEPT !.pairs =
            [i \in 1..m.pairCount_ |->
                Pair(m.pairs[i].start + (IF m.pairs[i].start < 0 THEN 0 ELSE disp),
                     m.pairs[i].limit + (IF m.pairs[i].limit < 0 THEN 0 ELSE disp))]]

JunkPairs == {Pair(-1, -1), Pair(0, 0)}

---------------------------------------------------------------------------
(* RegExpShared::execute, one action per stretch between two places where the
   collector or another thread can act *)

registryVars == <<alive, allocated, set_, matchResultTemplateObject_, gcPhase,
                  preservingCode, atomMarked, tmplMarked, objTraced, objKey,
                  objShared, guards, got, handedOut>>

RegExpRunStatus_Error == "Error"
RegExpRunStatus_Success == "Success"
RegExpRunStatus_Success_NotFound == "NotFound"

\* execute returns status.
Returned(status) == [exec EXCEPT !.pc = "done", !.status = status, !.from = exec.pc]

\* The caller, holding a guard on r, calls r.execute(cx, input, start, matches)
\* with a fresh ScopedMatchPairs or with no matches.
execute_begin(r, chars, latin1, start, wantMatches) ==
    /\ exec.pc = "idle"
    /\ r \in guards
    /\ exec' = [pc |-> "compile", re |-> r, chars |-> chars, latin1 |-> latin1,
                origStart |-> start, start |-> start,
                mode |-> IF wantMatches THEN Normal ELSE MatchOnly,
                matches |-> IF wantMatches THEN FreshMatchPairs ELSE NoMatches,
                charsOffset |-> 0, length |-> 0, origLength |-> 0, displacement |-> 0,
                result |-> "none", cause |-> "none", status |-> "none",
                from |-> "none", retried |-> FALSE, entry |-> shared[r]]
    /\ UNCHANGED <<shared, codeMarked, interrupt>>
    /\ last' = NoOp
    /\ UNCHANGED auxVars
    /\ UNCHANGED registryVars

\* History: the record as it was when compileIfNecessary was called for a slot.
CompileSaw(slot, atomOk, code) ==
    [op |-> "compile", re |-> exec.re, slot |-> slot, before |-> shared[exec.re],
     atomOk |-> atomOk, code |-> code]

\* Fault: an execute that goes on after compileIfNecessary failed.
execute_compile_ignoresFailure(atomOk, code) ==
    /\ exec.pc = "compile"
    /\ LET slot == <<exec.mode, exec.latin1>>
           c == RegExpShared_compileIfNecessary(shared[exec.re], slot, atomOk, code)
       IN
       /\ shared' = [shared EXCEPT ![exec.re] = c.sh]
       /\ codeMarked' =
             IF gcPhase = "mark" /\ c.sh.compilationArray[slot].jitCode
                /\ ~shared[exec.re].compilationArray[slot].jitCode
             THEN codeMarked \cup {<<exec.re, slot>>} ELSE codeMarked
       /\ exec' = [exec EXCEPT !.pc = "compiled"]
    /\ UNCHANGED interrupt
    /\ last' = CompileSaw(<<exec.mode, exec.latin1>>, atomOk, code)
    /\ UNCHANGED auxVars
    /\ UNCHANGED registryVars

\* compileIfNecessary(cx, input, mode); JitCode allocated while the zone is
\* marking is allocated marked.
execute_compile(atomOk, code) ==
    /\ exec.pc = "compile"
    /\ LET slot == <<exec.mode, exec.latin1>>
           c == RegExpShared_compileIfNecessary(shared[exec.re], slot, atomOk, code)
       IN
       /\ shared' = [shared EXCEPT ![exec.re] = c.sh]
       /\ codeMarked' =
             IF gcPhase = "mark" /\ c.sh.compilationArray[slot].jitCode
                /\ ~shared[exec.re].compilationArray[slot].jitCode
             THEN codeMarked \cup {<<exec.re, slot>>} ELSE codeMarked
       /\ exec' = IF c.ok THEN [exec EXCEPT !.pc = "compiled"]
                  ELSE Returned(RegExpRunStatus_Error)
    /\ UNCHANGED interrupt
    /\ last' = CompileSaw(<<exec.mode, exec.latin1>>, atomOk, code)
    /\ UNCHANGED auxVars
    /\ UNCHANGED registryVars

\* A dispatch that looks for bytecode in the slot of calls with a MatchPairs,
\* whatever the mode of the call.
dispatch_normalSlot(sh, slot) ==
    IF sh.canStringMatch THEN "literal"
    ELSE IF sh.compilationArray[<<Normal, slot[2]>>].byteCode THEN "interp"
    ELSE "native"

\* The path execute takes for the record and the input.
dispatch(sh, slot) ==
    IF sh.canStringMatch THEN "literal"
    ELSE IF sh.compilationArray[slot].byteCode THEN "interp"
    ELSE "native"

\* matches->allocOrExpandArray(pairCount()), the sticky displacement, and the
\* choice of the path.
execute_allocate(allocOk, junk) ==
    /\ exec.pc = "compiled"
    /\ LET sh == shared[exec.re]
           a == IF exec.matches.null
                THEN [ok |-> TRUE, asserted |-> FALSE, m |-> NoMatches]
                ELSE allocOrExpandArray(exec.matches, pairCount(sh), allocOk, junk)
           len == Len(exec.chars)
       IN
       exec' = IF a.asserted THEN [exec EXCEPT !.pc = "asserted"]
               ELSE IF ~a.ok THEN Returned(RegExpRunStatus_Error)
               ELSE IF sticky(sh)
               THEN [exec EXCEPT !.pc = dispatch(sh, <<exec.mode, exec.latin1>>),
                                 !.matches = a.m,
                                 !.origLength = len,
                                 !.displacement = exec.start,
                                 !.charsOffset = exec.start,
                                 !.length = len - exec.start,
                                 !.start = 0]
               ELSE [exec EXCEPT !.pc = dispatch(sh, <<exec.mode, exec.latin1>>),
                                 !.matches = a.m,
                                 !.origLength = len,
                                 !.length = len]
    /\ UNCHANGED <<shared, codeMarked, interrupt>>
    /\ last' = NoOp
    /\ UNCHANGED auxVars
    /\ UNCHANGED registryVars

\* Fault: a literal path that takes the found position for the limit too.
execute_literal_emptyRange ==
    /\ exec.pc = "literal"
    /\ LET sh == shared[exec.re]
           res == StringFindPattern(exec.chars, sh.source, exec.start + exec.charsOffset)
       IN
       exec' = IF res = -1 THEN Returned(RegExpRunStatus_Success_NotFound)
               ELSE IF ~exec.matches.null
               THEN [Returned(RegExpRunStatus_Success) EXCEPT
                        !.matches.pairs[1] = Pair(res, res)]
               ELSE Returned(RegExpRunStatus_Success)
    /\ UNCHANGED <<shared, codeMarked, interrupt>>
    /\ last' = NoOp
    /\ UNCHANGED auxVars
    /\ UNCHANGED registryVars

\* The canStringMatch path.
execute_literal ==
    /\ exec.pc = "literal"
    /\ LET sh == shared[exec.re]
           res == StringFindPattern(exec.chars, sh.source, exec.start + exec.charsOffset)
       IN
       exec' = IF res = -1 THEN Returned(RegExpRunStatus_Success_NotFound)
               ELSE IF ~exec.matches.null
               THEN [Returned(RegExpRunStatus_Success) EXCEPT
                        !.matches.pairs[1] = Pair(res, res + Len(sh.source))]
               ELSE Returned(RegExpRunStatus_Success)
    /\ UNCHANGED <<shared, codeMarked, interrupt>>
    /\ last' = NoOp
    /\ UNCHANGED auxVars
    /\ UNCHANGED registryVars

\* What one run of the generated code (irregexp::InterpretCode, ExecuteCode)
\* comes to: [result, cause, matches]. outcome is "run" when the code runs
\* to its end, "interrupt" when it gives up because an interrupt is requested,
\* "internal" when the backtrack stack is exhausted.
engineRun(outcome) ==
    LET sh == shared[exec.re]
        chars == SubSeq(exec.chars, exec.charsOffset + 1, Len(exec.chars))
        p == FirstMatch(sh, chars, exec.start, exec.length)
    IN
    IF outcome # "run"
    THEN [result |-> RegExpRunStatus_Error, cause |-> outcome, matches |-> exec.matches]
    ELSE IF p = -1
    THEN [result |-> RegExpRunStatus_Success_NotFound, cause |-> "none",
          matches |-> exec.matches]
    ELSE [result |-> RegExpRunStatus_Success, cause |-> "none",
          matches |-> IF exec.matches.null THEN NoMatches
                      ELSE [exec.matches EXCEPT
                              !.pairs = MatchedPairs(sh, p, exec.matches.pairCount_)]]

EngineOutcomes == {"run", "interrupt", "internal"}

\* The result of the bytecode path: displaced on a match, returned as it is.
interpret_returns(e) ==
    [exec EXCEPT !.pc = "done", !.status = e.result, !.result = e.result,
                 !.cause = e.cause, !.from = exec.pc,
                 !.matches = IF e.result = RegExpRunStatus_Success /\ ~e.matches.null
                             THEN MatchPairs_displace(e.matches, exec.displacement)
                             ELSE e.matches]

\* The bytecode path: inputChars.init, InterpretCode, displace.
execute_interpret(initOk, outcome) ==
    /\ exec.pc = "interp"
    /\ outcome = "interrupt" => interrupt
    /\ exec' = IF ~initOk THEN Returned(RegExpRunStatus_Error)
               ELSE interpret_returns(engineRun(outcome))
    /\ UNCHANGED <<shared, codeMarked, interrupt>>
    /\ last' = NoOp
    /\ UNCHANGED auxVars
    /\ UNCHANGED registryVars

\* The native path: one ExecuteCode call of the while (true) loop.
execute_native(outcome) ==
    /\ exec.pc = "native"
    /\ outcome = "interrupt" => interrupt
    /\ LET e == engineRun(outcome) IN
       exec' = [exec EXCEPT !.pc = "native_ret", !.result = e.result,
                            !.cause = e.cause, !.matches = e.matches]
    /\ UNCHANGED <<shared, codeMarked, interrupt>>
    /\ last' = NoOp
    /\ UNCHANGED auxVars
    /\ UNCHANGED registryVars

\* Fault: a loop that returns Error without looking at the interrupt flag.
native_result_noPoll(interrupted) ==
    IF exec.result = RegExpRunStatus_Error
    THEN Returned(RegExpRunStatus_Error)
    ELSE IF exec.result = RegExpRunStatus_Success_NotFound
    THEN Returned(RegExpRunStatus_Success_NotFound)
    ELSE IF ~exec.matches.null
    THEN [Returned(RegExpRunStatus_Success) EXCEPT
             !.matches = MatchPairs_displace(exec.matches, exec.displacement)]
    ELSE Returned(RegExpRunStatus_Success)

\* Fault: a loop that takes every Error for an interrupt.
native_result_alwaysPolls(interrupted) ==
    IF exec.result = RegExpRunStatus_Error
    THEN [exec EXCEPT !.pc = "poll"]
    ELSE IF exec.result = RegExpRunStatus_Success_NotFound
    THEN Returned(RegExpRunStatus_Success_NotFound)
    ELSE IF ~exec.matches.null
    THEN [Returned(RegExpRunStatus_Success) EXCEPT
             !.matches = MatchPairs_displace(exec.matches, exec.displacement)]
    ELSE Returned(RegExpRunStatus_Success)

\* What the loop does with the result of ExecuteCode, given the interrupt
\* flag it reads under the lock.
native_result(interrupted) ==
    IF exec.result = RegExpRunStatus_Error
    THEN IF interrupted
         THEN [exec EXCEPT !.pc = "poll"]
         ELSE Returned(RegExpRunStatus_Error)
    ELSE IF exec.result = RegExpRunStatus_Success_NotFound
    THEN Returned(RegExpRunStatus_Success_NotFound)
    ELSE IF ~exec.matches.null
    THEN [Returned(RegExpRunStatus_Success) EXCEPT
             !.matches = MatchPairs_displace(exec.matches, exec.displacement)]
    ELSE Returned(RegExpRunStatus_Success)

\* Fault: a loop that throws the code of the slot away when it reports Error.
execute_native_result_dropsCode ==
    /\ exec.pc = "native_ret"
    /\ exec' = native_result(interrupt)
    /\ shared' = IF exec.result = RegExpRunStatus_Error
                 THEN [shared EXCEPT
                         ![exec.re].compilationArray[<<exec.mode, exec.latin1>>] = NoCode]
                 ELSE shared
    /\ UNCHANGED <<codeMarked, interrupt>>
    /\ last' = NoOp
    /\ UNCHANGED auxVars
    /\ UNCHANGED registryVars

execute_native_result ==
    /\ exec.pc = "native_ret"
    /\ exec' = native_result(interrupt)
    /\ UNCHANGED <<shared, codeMarked, interrupt>>
    /\ last' = NoOp
    /\ UNCHANGED auxVars
    /\ UNCHANGED registryVars

\* Fault: a retry that resumes past the start instead of running again.
poll_result_resumes(continue) ==
    IF ~continue THEN Returned(RegExpRunStatus_Error)
    ELSE [exec EXCEPT !.pc = "native", !.retried = TRUE, !.start = exec.start + 1]

\* What the loop does with the answer of InvokeInterruptCallback.
poll_result(continue) ==
    IF ~continue THEN Returned(RegExpRunStatus_Error)
    ELSE [exec EXCEPT !.pc = "native", !.retried = TRUE]

\* InvokeInterruptCallback(cx): the runtime clears the request and asks the
\* embedding's callback whether to go on.
execute_poll(continue) ==
    /\ exec.pc = "poll"
    /\ interrupt' = FALSE
    /\ exec' = poll_result(continue)
    /\ UNCHANGED <<shared, codeMarked>>
    /\ last' = NoOp
    /\ UNCHANGED auxVars
    /\ UNCHANGED registryVars

\* History: the arguments of a call and what it returned.
CallOf(e) ==
    [kept |-> TRUE, re |-> e.re, chars |-> e.chars, latin1 |-> e.latin1,
     start |-> e.origStart, wantMatches |-> ~e.matches.null, status |-> e.status,
     from |-> e.from, retried |-> e.retried, cause |-> e.cause,
     pairs |-> e.matches.pairs]

\* The caller takes the status (and the matches).
execute_return ==
    /\ exec.pc = "done"
    /\ exec' = NoExec
    /\ lastCall' = IF lastCall.kept THEN CallOf(exec) ELSE lastCall
    /\ UNCHANGED <<shared, codeMarked, interrupt, parse, rendered, xdr, matchPairs,
                   templatesCreated, clone>>
    /\ last' = NoOp
    /\ UNCHANGED registryVars

\* JSRuntime::requestInterrupt from another thread, while the generated code
\* runs or right after it returned.
requestInterrupt ==
    /\ exec.pc \in {"interp", "native", "native_ret"}
    /\ ~interrupt
    /\ interrupt' = TRUE
    /\ UNCHANGED <<shared, codeMarked, exec>>
    /\ last' = NoOp
    /\ UNCHANGED auxVars
    /\ UNCHANGED registryVars

---------------------------------------------------------------------------
(* Specification of the registry under collection *)

Init ==
    /\ shared = [r \in Ids |-> NoShared]
    /\ alive = {}
    /\ allocated = 0
    /\ set_ = {}
    /\ matchResultTemplateObject_ = FALSE
    /\ gcPhase = "idle"
    /\ preservingCode = FALSE
    /\ atomMarked = {}
    /\ codeMarked = {}
    /\ tmplMarked = FALSE
    /\ objTraced = {}
    /\ objKey = [o \in Objects |-> NoKey]
    /\ objShared = [o \in Objects |-> 0]
    /\ guards = {}
    /\ got = [k \in Keys |-> 0]
    /\ handedOut = {}
    /\ last = NoOp
    /\ interrupt = FALSE
    /\ exec = NoExec
    /\ parse = NoParse
    /\ rendered = NoString
    /\ lastCall = NoHistory
    /\ xdr = NoXdr
    /\ matchPairs = NoBuffer
    /\ templatesCreated = 0
    /\ clone = NoClone

Next ==
    \/ \E k \in GcKeys : RegExpCompartment_get(k)
    \/ \E k \in GcKeys, cause \in {"alloc", "add"} : RegExpCompartment_get_fails(k, cause)
    \/ \E o \in Objects, k \in GcKeys : RegExpObject_init(o, k)
    \/ \E o \in Objects : RegExpObject_getShared(o)
    \/ \E r \in Ids : RegExpGuard_release(r)
    \/ \E ok \in BOOLEAN : createMatchResultTemplateObject(ok)
    \/ \E p \in BOOLEAN : GC_start(p)
    \/ \E o \in Objects : GC_markObject(o)
    \/ \E a \in GcSources : GC_markAtom(a)
    \/ GC_markTemplate
    \/ GC_sweep
    \/ GC_sweepCompacting
    \/ GC_abort
    \/ \E o \in Objects : RegExpObject_writeBarrier(o)
    \/ \E o \in Objects : RegExpObject_traceRuntime(o)

Spec == Init /\ [][Next]_vars

----------------------------------------------------------------------------
(* Specification of one execute call in flight while collections run *)

GuardChars == <<"x", "x", "a">>

NextGuard ==
    \/ \E k \in GcKeys : RegExpCompartment_get(k)
    \/ \E r \in Ids : RegExpGuard_release(r)
    \/ \E p \in BOOLEAN : GC_start(p)
    \/ \E o \in Objects : GC_markObject(o)
    \/ \E a \in GcSources : GC_markAtom(a)
    \/ GC_sweep
    \/ GC_sweepCompacting
    \/ GC_abort
    \/ \E r \in Ids : execute_begin(r, GuardChars, TRUE, 2, TRUE)
    \/ \E code \in {"jit", "byte", "empty"} : execute_compile(TRUE, code)
    \/ execute_allocate(TRUE, Pair(-1, -1))
    \/ execute_literal
    \/ \E outcome \in EngineOutcomes : execute_interpret(TRUE, outcome)
    \/ \E outcome \in EngineOutcomes : execute_native(outcome)
    \/ execute_native_result
    \/ \E continue \in BOOLEAN : execute_poll(continue)
    \/ execute_return
    \/ requestInterrupt

SpecGuard == Init /\ [][NextGuard]_vars

---------------------------------------------------------------------------
(* Specification of execute on its own: no collection, every input *)

ExecChars == {<<"x", "x", "a">>, <<"x", LF, "a">>}

\* The registry after one get(k) from the empty registry: the record the
\* caller holds a guard on.
InitExec ==
    /\ \E k \in ExecKeys :
          /\ shared = [r \in Ids |-> IF r = 1 THEN RegExpShared_ctor(k[1], k[2])
                                     ELSE NoShared]
          /\ got = [j \in Keys |-> IF j = k THEN 1 ELSE 0]
    /\ alive = {1}
    /\ allocated = 1
    /\ set_ = {1}
    /\ guards = {1}
    /\ handedOut = {}
    /\ last = NoOp
    /\ matchResultTemplateObject_ = FALSE
    /\ gcPhase = "idle"
    /\ preservingCode = FALSE
    /\ atomMarked = {}
    /\ codeMarked = {}
    /\ tmplMarked = FALSE
    /\ objTraced = {}
    /\ objKey = [o \in Objects |-> NoKey]
    /\ objShared = [o \in Objects |-> 0]
    /\ interrupt = FALSE
    /\ exec = NoExec
    /\ parse = NoParse
    /\ rendered = NoString
    /\ lastCall = NoHistory
    /\ xdr = NoXdr
    /\ matchPairs = NoBuffer
    /\ templatesCreated = 0
    /\ clone = NoClone

NextExec ==
    \/ \E r \in Ids, chars \in ExecChars, latin1 \in BOOLEAN, wantMatches \in BOOLEAN :
          \E start \in 0..Len(chars) : execute_begin(r, chars, latin1, start, wantMatches)
    \/ \E atomOk \in BOOLEAN, code \in {"jit", "byte", "empty"} :
          execute_compile(atomOk, code)
    \/ \E allocOk \in BOOLEAN, junk \in JunkPairs : execute_allocate(allocOk, junk)
    \/ execute_literal
    \/ \E initOk \in BOOLEAN, outcome \in EngineOutcomes : execute_interpret(initOk, outcome)
    \/ \E outcome \in EngineOutcomes : execute_native(outcome)
    \/ execute_native_result
    \/ \E continue \in BOOLEAN : execute_poll(continue)
    \/ execute_return
    \/ requestInterrupt

SpecExec == InitExec /\ [][NextExec]_vars

----------------------------------------------------------------------------
(* Flags: HandleRegExpFlag, ParseRegExpFlags, js::ParseRegExpFlags, and
   RegExpObject::toString *)

\* The characters of the flag strings tried: the four letters, another Latin-1
\* letter, and U+0167, a two-byte character whose low byte is that of 'g'.
FlagLetters == {"g", "i", "m", "y"}
FlagChars == FlagLetters \cup {"x", "u0167"}

\* The code unit of a character, and the Latin-1 character of a byte.
CodeUnit(ch) ==
    CASE ch = "g" -> 103 [] ch = "i" -> 105 [] ch = "m" -> 109
      [] ch = "x" -> 120 [] ch = "y" -> 121 [] ch = "u0167" -> 359

Latin1Char(n) == CHOOSE ch \in FlagChars : CodeUnit(ch) = n

\* char(lastParsed): the conversion of a char16_t to char keeps the low byte.
CharBits == 8
ToChar(ch) == Latin1Char(CodeUnit(ch) % (2 ^ CharBits))

\* Fault: a HandleRegExpFlag that does not set the flag.
HandleRegExpFlag_dropsFlag(flag, flags) == [ok |-> flag \notin flags, flags |-> flags]

\* HandleRegExpFlag(flag, flags): [ok, flags].
HandleRegExpFlag(flag, flags) ==
    IF flag \in flags THEN [ok |-> FALSE, flags |-> flags]
    ELSE [ok |-> TRUE, flags |-> flags \cup {flag}]

\* Fault: a switch that takes 'y' for the multiline flag.
FlagOfLetter_yIsMultiline(ch) ==
    CASE ch = "i" -> {IgnoreCaseFlag}
      [] ch = "g" -> {GlobalFlag}
      [] ch = "m" -> {MultilineFlag}
      [] ch = "y" -> {MultilineFlag}
      [] OTHER -> {}

\* The switch of ParseRegExpFlags: the flag of a letter ({}: the default case).
FlagOfLetter(ch) ==
    CASE ch = "i" -> {IgnoreCaseFlag}
      [] ch = "g" -> {GlobalFlag}
      [] ch = "m" -> {MultilineFlag}
      [] ch = "y" -> {StickyFlag}
      [] OTHER -> {}

\* The loop of ParseRegExpFlags<CharT> from index i (from 1) on:
\* [ok, flagsOut, lastParsed].
RECURSIVE ParseRegExpFlags_from(_, _, _, _)
ParseRegExpFlags_from(chars, i, flagsOut, lastParsed) ==
    IF i > Len(chars)
    THEN [ok |-> TRUE, flagsOut |-> flagsOut, lastParsed |-> lastParsed]
    ELSE IF FlagOfLetter(chars[i]) = {}
    THEN [ok |-> FALSE, flagsOut |-> flagsOut, lastParsed |-> chars[i]]
    ELSE LET h == HandleRegExpFlag(CHOOSE f \in FlagOfLetter(chars[i]) : TRUE, flagsOut) IN
         IF ~h.ok
         THEN [ok |-> FALSE, flagsOut |-> flagsOut, lastParsed |-> chars[i]]
         ELSE ParseRegExpFlags_from(chars, i + 1, h.flags, chars[i])

\* ParseRegExpFlags<CharT>(chars, length, flagsOut, lastParsedOut); lastParsed
\* is not initialised by the caller.
ParseRegExpFlags(chars) == ParseRegExpFlags_from(chars, 1, {}, "uninitialised")

\* js::ParseRegExpFlags(cx, flagStr, flagsOut): what it returns, the flags it
\* leaves in flagsOut, and on failure the character of the error
\* JSMSG_BAD_REGEXP_FLAG it reports.
js_ParseRegExpFlags(chars) ==
    LET res == ParseRegExpFlags(chars) IN
    [called |-> TRUE, chars |-> chars, ok |-> res.ok, flagsOut |-> res.flagsOut,
     error |-> IF res.ok THEN "none" ELSE "JSMSG_BAD_REGEXP_FLAG",
     charBuf |-> IF res.ok THEN <<>> ELSE <<ToChar(res.lastParsed)>>]

\* Fault: a toString that appends 'i' before 'g'.
toString_ignoreCaseFirst(source, flags) ==
    (IF Len(source) # 0 THEN <<"/">> \o source \o <<"/">>
     ELSE <<"/", "(", "?", ":", ")", "/">>)
    \o (IF IgnoreCaseFlag \in flags THEN <<"i">> ELSE <<>>)
    \o (IF GlobalFlag \in flags THEN <<"g">> ELSE <<>>)
    \o (IF MultilineFlag \in flags THEN <<"m">> ELSE <<>>)
    \o (IF StickyFlag \in flags THEN <<"y">> ELSE <<>>)

\* RegExpObject::toString(cx) of an object with the given source and flags.
toString(source, flags) ==
    (IF Len(source) # 0 THEN <<"/">> \o source \o <<"/">>
     ELSE <<"/", "(", "?", ":", ")", "/">>)
    \o (IF GlobalFlag \in flags THEN <<"g">> ELSE <<>>)
    \o (IF IgnoreCaseFlag \in flags THEN <<"i">> ELSE <<>>)
    \o (IF MultilineFlag \in flags THEN <<"m">> ELSE <<>>)
    \o (IF StickyFlag \in flags THEN <<"y">> ELSE <<>>)

flagVars == <<shared, alive, allocated, set_, matchResultTemplateObject_, gcPhase,
              preservingCode, atomMarked, codeMarked, tmplMarked, objTraced,
              objShared, guards, got, handedOut, interrupt, exec, lastCall, xdr,
              matchPairs, templatesCreated, clone>>

\* A call of js::ParseRegExpFlags on a flag string.
ParseRegExpFlags_call(chars) ==
    /\ parse' = js_ParseRegExpFlags(chars)
    /\ last' = NoOp
    /\ UNCHANGED <<objKey, rendered>>
    /\ UNCHANGED flagVars

\* A call of toString on an initialised object.
RegExpObject_toString(o) ==
    /\ objKey[o] # NoKey
    /\ rendered' = toString(objKey[o][1], objKey[o][2])
    /\ last' = NoOp
    /\ UNCHANGED <<objKey, parse>>
    /\ UNCHANGED flagVars

----------------------------------------------------------------------------
(* Specification of the flags: strings are parsed, objects are initialised
   with the flags parsed, and rendered *)

MaxFlagLen == 2

RECURSIVE StringsUpTo(_, _)
StringsUpTo(alphabet, n) ==
    IF n = 0 THEN {<<>>}
    ELSE LET shorter == StringsUpTo(alphabet, n - 1) IN
         shorter \cup {Append(w, ch) : w \in shorter, ch \in alphabet}

\* Every string of up to MaxFlagLen characters, and every string of the four
\* letters without a repetition.
FlagStrings ==
    StringsUpTo(FlagChars, MaxFlagLen)
    \cup {w \in StringsUpTo(FlagLetters, Cardinality(FlagLetters)) :
              \A i, j \in 1..Len(w) : w[i] = w[j] => i = j}

FlagSources == {<<>>, <<"a">>}

\* An empty registry, an object not initialised, and a flag string to parse.
InitFlags ==
    /\ \E chars \in FlagStrings : parse = [called |-> FALSE, chars |-> chars]
    /\ shared = [r \in Ids |-> NoShared]
    /\ alive = {}
    /\ allocated = 0
    /\ set_ = {}
    /\ guards = {}
    /\ got = [j \in Keys |-> 0]
    /\ handedOut = {}
    /\ last = NoOp
    /\ matchResultTemplateObject_ = FALSE
    /\ gcPhase = "idle"
    /\ preservingCode = FALSE
    /\ atomMarked = {}
    /\ codeMarked = {}
    /\ tmplMarked = FALSE
    /\ objTraced = {}
    /\ objKey = [o \in Objects |-> NoKey]
    /\ objShared = [o \in Objects |-> 0]
    /\ interrupt = FALSE
    /\ exec = NoExec
    /\ rendered = NoString
    /\ lastCall = NoHistory
    /\ xdr = NoXdr
    /\ matchPairs = NoBuffer
    /\ templatesCreated = 0
    /\ clone = NoClone

\* The string is parsed; when it parses, an object is initialised with the
\* flags parsed, and rendered.
NextFlags ==
    \/ ~parse.called /\ ParseRegExpFlags_call(parse.chars)
    \/ \E o \in Objects, source \in FlagSources :
          /\ parse.called /\ parse.ok /\ objKey[o] = NoKey
          /\ RegExpObject_init(o, <<source, parse.flagsOut>>)
    \/ \E o \in Objects : RegExpObject_toString(o)

SpecFlags == InitFlags /\ [][NextFlags]_vars

----------------------------------------------------------------------------
(* Specification of execute on records that take the literal path *)

LiteralSources == {<<"a", "b", "c">>, <<"a">>}
LiteralFlagSets == {{}, {GlobalFlag, MultilineFlag}}
LiteralChars == {<<"x", "x", "a", "b", "c", "x", "x">>,
                 <<"a", "b", "c", "a", "b", "c">>,
                 <<"x", "a", "b">>}

\* The registry after one get of a source without metacharacters.
InitLiteral ==
    /\ \E source \in LiteralSources, flags \in LiteralFlagSets :
          shared = [r \in Ids |-> IF r = 1 THEN RegExpShared_ctor(source, flags)
                                  ELSE NoShared]
    /\ got = [j \in Keys |-> 0]
    /\ alive = {1}
    /\ allocated = 1
    /\ set_ = {1}
    /\ guards = {1}
    /\ handedOut = {}
    /\ last = NoOp
    /\ matchResultTemplateObject_ = FALSE
    /\ gcPhase = "idle"
    /\ preservingCode = FALSE
    /\ atomMarked = {}
    /\ codeMarked = {}
    /\ tmplMarked = FALSE
    /\ objTraced = {}
    /\ objKey = [o \in Objects |-> NoKey]
    /\ objShared = [o \in Objects |-> 0]
    /\ interrupt = FALSE
    /\ exec = NoExec
    /\ parse = NoParse
    /\ rendered = NoString
    /\ lastCall = NoHistory
    /\ xdr = NoXdr
    /\ matchPairs = NoBuffer
    /\ templatesCreated = 0
    /\ clone = NoClone

NextLiteral ==
    \/ \E r \in Ids, chars \in LiteralChars, latin1 \in BOOLEAN, wantMatches \in BOOLEAN :
          \E start \in 0..Len(chars) : execute_begin(r, chars, latin1, start, wantMatches)
    \/ \E atomOk \in BOOLEAN, code \in {"jit", "byte", "empty"} : execute_compile(atomOk, code)
    \/ \E allocOk \in BOOLEAN, junk \in JunkPairs : execute_allocate(allocOk, junk)
    \/ execute_literal
    \/ execute_return

SpecLiteral == InitLiteral /\ [][NextLiteral]_vars

----------------------------------------------------------------------------
(* Specification of compilation at the point of use: every flag set, sources
   with and without metacharacters, no interrupt *)

CompileSources == {<<"a">>, <<"(", "a", ")">>, <<"a", ")">>}
CompileFlagSets == SUBSET AllFlags
CompileChars == <<"x", "a">>

\* The registry after one get.
InitCompile ==
    /\ \E source \in CompileSources, flags \in CompileFlagSets :
          shared = [r \in Ids |-> IF r = 1 THEN RegExpShared_ctor(source, flags)
                                  ELSE NoShared]
    /\ got = [j \in Keys |-> 0]
    /\ alive = {1}
    /\ allocated = 1
    /\ set_ = {1}
    /\ guards = {1}
    /\ handedOut = {}
    /\ last = NoOp
    /\ matchResultTemplateObject_ = FALSE
    /\ gcPhase = "idle"
    /\ preservingCode = FALSE
    /\ atomMarked = {}
    /\ codeMarked = {}
    /\ tmplMarked = FALSE
    /\ objTraced = {}
    /\ objKey = [o \in Objects |-> NoKey]
    /\ objShared = [o \in Objects |-> 0]
    /\ interrupt = FALSE
    /\ exec = NoExec
    /\ parse = NoParse
    /\ rendered = NoString
    /\ lastCall = NoHistory
    /\ xdr = NoXdr
    /\ matchPairs = NoBuffer
    /\ templatesCreated = 0
    /\ clone = NoClone

NextCompile ==
    \/ \E r \in Ids, latin1 \in BOOLEAN, wantMatches \in BOOLEAN :
          execute_begin(r, CompileChars, latin1, 0, wantMatches)
    \/ \E atomOk \in BOOLEAN, code \in {"jit", "byte", "empty"} : execute_compile(atomOk, code)
    \/ execute_allocate(TRUE, Pair(-1, -1))
    \/ execute_literal
    \/ execute_interpret(TRUE, "run")
    \/ execute_native("run")
    \/ execute_native_result
    \/ execute_return

SpecCompile == InitCompile /\ [][NextCompile]_vars

----------------------------------------------------------------------------
(* Specification of repeated calls of execute: the arguments and the result of
   the previous call are kept *)

TwiceSources == {<<"a">>, <<"(", "a", ")">>, <<"a", ")">>}
TwiceFlagSets == {{}, {IgnoreCaseFlag}, {StickyFlag}}
TwiceChars == <<"x", "a">>
TwiceStarts == {0, 1}

\* The registry after one get.
InitTwice ==
    /\ \E source \in TwiceSources, flags \in TwiceFlagSets :
          shared = [r \in Ids |-> IF r = 1 THEN RegExpShared_ctor(source, flags)
                                  ELSE NoShared]
    /\ got = [j \in Keys |-> 0]
    /\ alive = {1}
    /\ allocated = 1
    /\ set_ = {1}
    /\ guards = {1}
    /\ handedOut = {}
    /\ last = NoOp
    /\ matchResultTemplateObject_ = FALSE
    /\ gcPhase = "idle"
    /\ preservingCode = FALSE
    /\ atomMarked = {}
    /\ codeMarked = {}
    /\ tmplMarked = FALSE
    /\ objTraced = {}
    /\ objKey = [o \in Objects |-> NoKey]
    /\ objShared = [o \in Objects |-> 0]
    /\ interrupt = FALSE
    /\ exec = NoExec
    /\ parse = NoParse
    /\ rendered = NoString
    /\ lastCall = NoCallYet
    /\ xdr = NoXdr
    /\ matchPairs = NoBuffer
    /\ templatesCreated = 0
    /\ clone = NoClone

NextTwice ==
    \/ \E r \in Ids, wantMatches \in BOOLEAN, start \in TwiceStarts :
          execute_begin(r, TwiceChars, TRUE, start, wantMatches)
    \/ \E atomOk \in BOOLEAN, code \in {"jit", "byte", "empty"} :
          execute_compile(atomOk, code)
    \/ \E allocOk \in BOOLEAN, junk \in JunkPairs : execute_allocate(allocOk, junk)
    \/ execute_literal
    \/ \E initOk \in BOOLEAN, outcome \in EngineOutcomes : execute_interpret(initOk, outcome)
    \/ \E outcome \in EngineOutcomes : execute_native(outcome)
    \/ execute_native_result
    \/ \E continue \in BOOLEAN : execute_poll(continue)
    \/ execute_return
    \/ requestInterrupt

SpecTwice == InitTwice /\ [][NextTwice]_vars

----------------------------------------------------------------------------
(* execute under interrupts, with the steps of a call taken in turn *)

RetryChars == <<"x", "a">>

\* A step of the running call: the code after execute's entry runs on to its
\* return, each match attempt and each interrupt callback comes back.
executeStep ==
    \/ \E atomOk \in BOOLEAN, code \in {"jit", "byte", "empty"} :
          execute_compile(atomOk, code)
    \/ \E allocOk \in BOOLEAN, junk \in JunkPairs : execute_allocate(allocOk, junk)
    \/ execute_literal
    \/ \E initOk \in BOOLEAN, outcome \in EngineOutcomes : execute_interpret(initOk, outcome)
    \/ \E outcome \in EngineOutcomes : execute_native(outcome)
    \/ execute_native_result
    \/ \E continue \in BOOLEAN : execute_poll(continue)

NextRetry ==
    \/ \E r \in Ids, wantMatches \in BOOLEAN, start \in 0..Len(RetryChars) :
          execute_begin(r, RetryChars, TRUE, start, wantMatches)
    \/ executeStep
    \/ execute_return
    \/ requestInterrupt

SpecRetry == InitExec /\ [][NextRetry]_vars /\ WF_vars(executeStep)

----------------------------------------------------------------------------
(* execute on a sticky record with any start offset, the offsets beyond the
   end of the input included *)

SliceChars == <<"x", "a">>

\* How far beyond the end of the input the start offsets go.
MaxOvershoot == 1

\* A size_t is held by the representative of its residue nearest zero: the
\* value 2^w - n that length -= displacement leaves when displacement exceeds
\* length by n is held as -n. SizeLess is < on the size_t values themselves.
SizeLess(a, b) ==
    IF (a < 0) = (b < 0) THEN a < b ELSE b < 0

\* The slice execute hands to the matcher lies within the input.
SliceInBounds ==
    /\ ~SizeLess(Len(exec.chars), exec.charsOffset)
    /\ ~SizeLess(Len(exec.chars), exec.length)

\* The matcher called with a character pointer beyond the end of the input
\* and a length that has wrapped: it reads memory that is not the input's,
\* and returns any status, with any pairs.
execute_outOfBounds(status, junk) ==
    /\ exec.pc \in {"interp", "native"}
    /\ ~SliceInBounds
    /\ exec' = [Returned(status) EXCEPT
                   !.result = status,
                   !.matches = IF exec.matches.null THEN exec.matches
                               ELSE [exec.matches EXCEPT !.pairs =
                                        [i \in 1..exec.matches.pairCount_ |-> junk]]]
    /\ UNCHANGED <<shared, codeMarked, interrupt>>
    /\ last' = NoOp
    /\ UNCHANGED auxVars
    /\ UNCHANGED registryVars

\* The registry holds one sticky record.
InitSlice == InitExec /\ sticky(shared[1])

NextSlice ==
    \/ \E r \in Ids, wantMatches \in BOOLEAN,
          start \in 0..(Len(SliceChars) + MaxOvershoot) :
             execute_begin(r, SliceChars, TRUE, start, wantMatches)
    \/ \E code \in {"jit", "byte"} : execute_compile(TRUE, code)
    \/ \E junk \in JunkPairs : execute_allocate(TRUE, junk)
    \/ exec.pc = "interp" /\ SliceInBounds /\ execute_interpret(TRUE, "run")
    \/ exec.pc = "native" /\ SliceInBounds /\ execute_native("run")
    \/ \E status \in {RegExpRunStatus_Error, RegExpRunStatus_Success,
                       RegExpRunStatus_Success_NotFound}, junk \in JunkPairs :
          execute_outOfBounds(status, junk)
    \/ execute_native_result
    \/ execute_return

SpecSlice == InitSlice /\ [][NextSlice]_vars

----------------------------------------------------------------------------
(* js::XDRScriptRegExpObject: a RegExpObject encoded as its source atom and a
   32-bit flags word, and decoded through RegExpObject::createNoStatics *)

\* The bit of a flag in a RegExpFlag value: JSREG_FOLD, JSREG_GLOB,
\* JSREG_MULTILINE, JSREG_STICKY.
FlagBit(flag) ==
    CASE flag = IgnoreCaseFlag -> 1
      [] flag = GlobalFlag -> 2
      [] flag = MultilineFlag -> 4
      [] flag = StickyFlag -> 8

\* RegExpObject::getFlags(): the RegExpFlag value of the object's four flag
\* slots, below 16, which the uint32_t flagsword holds as it is.
getFlags(flags) ==
    (IF GlobalFlag \in flags THEN FlagBit(GlobalFlag) ELSE 0)
    + (IF IgnoreCaseFlag \in flags THEN FlagBit(IgnoreCaseFlag) ELSE 0)
    + (IF MultilineFlag \in flags THEN FlagBit(MultilineFlag) ELSE 0)
    + (IF StickyFlag \in flags THEN FlagBit(StickyFlag) ELSE 0)

\* Fault: a decoder that keeps the two low bits of the flags word.
SlotsOfFlags_lowBits(flagsword) ==
    {flag \in {IgnoreCaseFlag, GlobalFlag} : (flagsword \div FlagBit(flag)) % 2 = 1}

\* The flag slots RegExpObject::init sets from RegExpFlag(flagsword):
\* setGlobal(flags & GlobalFlag), and so on.
SlotsOfFlags(flagsword) ==
    {flag \in AllFlags : (flagsword \div FlagBit(flag)) % 2 = 1}

\* No object: nullptr.
NoObject == [key |-> NoKey, shared |-> 0]

\* RegExpObjectBuilder::build(source, flags): getOrCreate makes an object with
\* a null private, init sets its slots.
RegExpObjectBuilder_build(source, flagsword, allocOk) ==
    IF ~allocOk THEN NoObject
    ELSE [key |-> <<source, SlotsOfFlags(flagsword)>>, shared |-> 0]

\* RegExpObject::createNoStatics(cx, source, flags, nullptr, alloc)
createNoStatics(source, flagsword, allocOk) ==
    IF ~ParsePatternOk(source) THEN NoObject
    ELSE RegExpObjectBuilder_build(source, flagsword, allocOk)

xdrVars == <<shared, alive, allocated, set_, matchResultTemplateObject_, gcPhase,
             preservingCode, atomMarked, codeMarked, tmplMarked, objTraced, objKey,
             objShared, guards, got, handedOut, interrupt, exec, parse, rendered,
             lastCall, matchPairs, templatesCreated, clone>>

\* XDRScriptRegExpObject<XDR_ENCODE>: codeOk is whether XDRAtom and codeUint32
\* could write.
XDRScriptRegExpObject_encode(o, codeOk) ==
    /\ objKey[o] # NoKey
    /\ xdr.mode = "none"
    /\ xdr' = IF codeOk
              THEN [mode |-> "encoded", source |-> objKey[o][1],
                    flagsword |-> getFlags(objKey[o][2]), reobj |-> NoObject]
              ELSE [mode |-> "failed", source |-> <<>>, flagsword |-> 0,
                    reobj |-> NoObject]
    /\ last' = NoOp
    /\ UNCHANGED xdrVars

\* XDRScriptRegExpObject<XDR_DECODE>: codeOk is whether XDRAtom and codeUint32
\* could read, allocOk whether the object could be allocated and shaped.
XDRScriptRegExpObject_decode(codeOk, allocOk) ==
    /\ xdr.mode = "encoded"
    /\ LET reobj == createNoStatics(xdr.source, xdr.flagsword, allocOk) IN
       xdr' = IF ~codeOk \/ reobj = NoObject
              THEN [xdr EXCEPT !.mode = "failed"]
              ELSE [xdr EXCEPT !.mode = "decoded", !.reobj = reobj]
    /\ last' = NoOp
    /\ UNCHANGED xdrVars

XdrSources == {<<"a">>, <<"(", "a", ")">>}

\* An initialised object without a RegExpShared, and an empty registry.
InitXDR ==
    /\ shared = [r \in Ids |-> NoShared]
    /\ alive = {}
    /\ allocated = 0
    /\ set_ = {}
    /\ matchResultTemplateObject_ = FALSE
    /\ gcPhase = "idle"
    /\ preservingCode = FALSE
    /\ atomMarked = {}
    /\ codeMarked = {}
    /\ tmplMarked = FALSE
    /\ objTraced = {}
    /\ \E source \in XdrSources, flags \in SUBSET AllFlags :
          objKey = [o \in Objects |-> <<source, flags>>]
    /\ objShared = [o \in Objects |-> 0]
    /\ guards = {}
    /\ got = [k \in Keys |-> 0]
    /\ handedOut = {}
    /\ last = NoOp
    /\ interrupt = FALSE
    /\ exec = NoExec
    /\ parse = NoParse
    /\ rendered = NoString
    /\ lastCall = NoHistory
    /\ xdr = NoXdr
    /\ matchPairs = NoBuffer
    /\ templatesCreated = 0
    /\ clone = NoClone

NextXDR ==
    \/ \E o \in Objects :
          /\ objKey[o] \in Keys
          /\ RegExpObject_getShared(o)
    \/ \E o \in Objects, codeOk \in BOOLEAN : XDRScriptRegExpObject_encode(o, codeOk)
    \/ \E codeOk \in BOOLEAN, allocOk \in BOOLEAN :
          XDRScriptRegExpObject_decode(codeOk, allocOk)

SpecXDR == InitXDR /\ [][NextXDR]_vars

----------------------------------------------------------------------------
(* RegExpObjectBuilder::clone: a second object made from an existing one and
   the flags of the RegExpStatics *)

\* The flags a RegExpStatics can hold when clone reads them.
CloneStatics == {{}, {MultilineFlag}, {StickyFlag}}

\* A test that takes any flag of the statics for a flag the original lacks.
staticsAddFlags_anyStatics(origFlags, staticsFlags) == staticsFlags # {}

\* (origFlags & staticsFlags) != staticsFlags: the statics hold a flag the
\* original does not have.
staticsAddFlags(origFlags, staticsFlags) == (origFlags \cap staticsFlags) # staticsFlags

\* The object clone returned, with the call that made it: the flags of the
\* statics, and the source, flags and RegExpShared the original had at the call.
CloneOf(other, staticsFlags, ok, key, r) ==
    [made |-> TRUE, ok |-> ok, key |-> key, shared |-> r, statics |-> staticsFlags,
     origKey |-> objKey[other], origShared |-> objShared[other]]

\* RegExpObjectBuilder::clone(other). allocOk: getOrCreateClone and
\* getRegExpStatics succeed; initOk: RegExpObject::init of the new object
\* succeeds. The RegExpGuard of the call is gone when it returns.
RegExpObjectBuilder_clone(other, staticsFlags, allocOk, initOk) ==
    LET source == objKey[other][1]
        origFlags == objKey[other][2]
        failed == CloneOf(other, staticsFlags, FALSE, NoKey, 0)
    IN
    /\ exec.pc = "idle"
    /\ objKey[other] \in Keys
    /\ \/ /\ ~allocOk
          /\ clone' = failed
          /\ UNCHANGED <<shared, alive, allocated, set_, atomMarked, codeMarked,
                         objShared, got, handedOut>>
       \/ /\ allocOk
          /\ staticsAddFlags(origFlags, staticsFlags)
          /\ clone' = IF initOk
                      THEN CloneOf(other, staticsFlags, TRUE,
                                   <<source, origFlags \cup staticsFlags>>, 0)
                      ELSE failed
          /\ UNCHANGED <<shared, alive, allocated, set_, atomMarked, codeMarked,
                         objShared, got, handedOut>>
       \/ /\ allocOk
          /\ ~staticsAddFlags(origFlags, staticsFlags)
          /\ objShared[other] = 0
          /\ lookupForAdd(objKey[other]) = {}
          /\ clone' = failed
          /\ UNCHANGED <<shared, alive, allocated, set_, atomMarked, codeMarked,
                         objShared, got, handedOut>>
       \/ /\ allocOk
          /\ ~staticsAddFlags(origFlags, staticsFlags)
          /\ \E r \in Ids :
                /\ \/ /\ objShared[other] = r
                      /\ shared' = TracedShared(MaybeTraceRegExpShared(r), TRUE)
                      /\ atomMarked' = TracedAtoms(MaybeTraceRegExpShared(r), TRUE)
                      /\ codeMarked' = TracedCode(MaybeTraceRegExpShared(r), TRUE)
                      /\ UNCHANGED <<alive, allocated, set_, got, objShared>>
                   \/ /\ objShared[other] = 0
                      /\ get_lookupOrAdd(objKey[other], r)
                      /\ got' = [got EXCEPT ![objKey[other]] = r]
                      /\ objShared' = [objShared EXCEPT ![other] = r]
                /\ handedOut' = IF needsIncrementalBarrier THEN handedOut \cup {r}
                                ELSE handedOut
                /\ clone' = IF initOk
                            THEN CloneOf(other, staticsFlags, TRUE,
                                         <<source, shared'[r].flags>>, r)
                            ELSE failed
    /\ last' = NoOp
    /\ UNCHANGED <<guards, matchResultTemplateObject_, gcPhase, preservingCode,
                   tmplMarked, objTraced, objKey, interrupt, exec>>
    /\ UNCHANGED <<parse, rendered, lastCall, xdr, matchPairs, templatesCreated>>

\* An object is initialised and initialised again, gets its RegExpShared, and
\* is cloned under the flags of the statics.
NextClone ==
    \/ \E o \in Objects, k \in Keys : RegExpObject_init(o, k)
    \/ \E o \in Objects : RegExpObject_getShared(o)
    \/ \E r \in Ids : RegExpGuard_release(r)
    \/ \E o \in Objects, staticsFlags \in CloneStatics, allocOk \in BOOLEAN,
          initOk \in BOOLEAN : RegExpObjectBuilder_clone(o, staticsFlags, allocOk, initOk)

SpecClone == Init /\ [][NextClone]_vars

----------------------------------------------------------------------------
(* RegExpCompartment::get with a flag string, and the ways get fails *)

\* Flag strings given to get: one that parses, two that do not.
GetOpts == {<<"y">>, <<"x">>, <<"y", "y">>}

\* RegExpCompartment::get(cx, atom, opt, g): ParseRegExpFlags on opt, which
\* reports the error and makes get return false when it fails, and then get
\* with the flags parsed.
RegExpCompartment_get_opt(atom, opt) ==
    LET p == js_ParseRegExpFlags(opt) IN
    \/ /\ ~p.ok
       /\ exec.pc = "idle"
       /\ parse' = p
       /\ last' = [op |-> "getFails", cause |-> "flags", key |-> <<atom, {}>>]
       /\ UNCHANGED <<rendered, lastCall, xdr, matchPairs, templatesCreated, clone>>
       /\ UNCHANGED <<shared, alive, allocated, set_, matchResultTemplateObject_, gcPhase,
                      preservingCode, atomMarked, codeMarked, tmplMarked, objTraced,
                      objKey, objShared, guards, got, handedOut, interrupt, exec>>
    \/ /\ p.ok
       /\ RegExpCompartment_get(<<atom, p.flagsOut>>)

\* The registry under get in its two forms, failing and succeeding, guards
\* released and collections.
NextGet ==
    \/ \E k \in GcKeys : RegExpCompartment_get(k)
    \/ \E k \in GcKeys, cause \in {"alloc", "add"} : RegExpCompartment_get_fails(k, cause)
    \/ \E atom \in GcSources, opt \in GetOpts : RegExpCompartment_get_opt(atom, opt)
    \/ \E r \in Ids : RegExpGuard_release(r)
    \/ \E p \in BOOLEAN : GC_start(p)
    \/ \E o \in Objects : GC_markObject(o)
    \/ \E a \in GcSources : GC_markAtom(a)
    \/ GC_sweep
    \/ GC_abort

SpecGet == Init /\ [][NextGet]_vars

----------------------------------------------------------------------------
(* The end of the registry: RegExpCompartment::~RegExpCompartment *)

\* The registry is gone: no operation on it runs any more.
Destroyed == [pc |-> "destroyed"]

\* History: what the destructor found.
TeardownSaw ==
    [op |-> "teardown", pre |-> set_, aliveBefore |-> alive,
     marked |-> {r \in set_ : shared[r].marked_}]

\* Fault: a destructor that deletes only the records that are not marked.
RegExpCompartment_dtor_skipsMarked ==
    /\ exec.pc = "idle"
    /\ gcPhase = "idle"
    /\ guards = {}
    /\ \A o \in Objects : objShared[o] = 0
    /\ LET deleted == {r \in set_ : ~shared[r].marked_} IN
       /\ alive' = alive \ deleted
       /\ shared' = [r \in Ids |-> IF r \in deleted THEN NoShared ELSE shared[r]]
    /\ set_' = {}
    /\ matchResultTemplateObject_' = FALSE
    /\ exec' = Destroyed
    /\ last' = TeardownSaw
    /\ UNCHANGED auxVars
    /\ UNCHANGED <<allocated, gcPhase, preservingCode, atomMarked, codeMarked, tmplMarked,
                   objTraced, objKey, objShared, guards, got, handedOut, interrupt>>

\* ~RegExpCompartment: js_delete on every entry of set_, and the set and the
\* template pointer go with the registry. It runs when nothing uses the
\* registry: no guard, no object with a record, no collection under way.
RegExpCompartment_dtor ==
    /\ exec.pc = "idle"
    /\ gcPhase = "idle"
    /\ guards = {}
    /\ \A o \in Objects : objShared[o] = 0
    /\ alive' = alive \ set_
    /\ shared' = [r \in Ids |-> IF r \in set_ THEN NoShared ELSE shared[r]]
    /\ set_' = {}
    /\ matchResultTemplateObject_' = FALSE
    /\ exec' = Destroyed
    /\ last' = TeardownSaw
    /\ UNCHANGED auxVars
    /\ UNCHANGED <<allocated, gcPhase, preservingCode, atomMarked, codeMarked, tmplMarked,
                   objTraced, objKey, objShared, guards, got, handedOut, interrupt>>

NextTeardown ==
    \/ Next
    \/ RegExpCompartment_dtor

SpecTeardown == Init /\ [][NextTeardown]_vars

----------------------------------------------------------------------------
(* A MatchPairs buffer kept by its owner: initArray and displace called on it,
   and execute called with it again and again *)

MaxPairs == 3
MaxOffset == 3

\* A buffer on which an assertion failed: the program has stopped.
AssertedBuffer == [kind |-> "asserted"]

\* History: a call on the buffer, what it was asked and what it found.
BufferSaw(op, n, a) ==
    [op |-> op, n |-> n, ok |-> a.ok, asserted |-> a.asserted, before |-> matchPairs]

\* The owner calls initArray(n) on the buffer.
MatchPairs_initArray_call(n, allocOk, junk) ==
    /\ exec.pc = "idle"
    /\ matchPairs.kind \in {"scoped", "vector"}
    /\ LET a == MatchPairs_initArray(matchPairs, n, allocOk, junk) IN
       /\ matchPairs' = IF a.asserted THEN AssertedBuffer ELSE a.m
       /\ last' = BufferSaw("initArray", n, a)
    /\ UNCHANGED <<parse, rendered, lastCall, xdr, templatesCreated, clone>>
    /\ UNCHANGED <<shared, codeMarked, interrupt, exec>>
    /\ UNCHANGED registryVars

\* The owner calls displace(disp) on the buffer.
MatchPairs_displace_call(disp) ==
    /\ exec.pc = "idle"
    /\ matchPairs.kind \in {"scoped", "vector"}
    /\ matchPairs.pairCount_ > 0
    /\ \A i \in 1..matchPairs.pairCount_ : matchPairs.pairs[i].limit + disp <= MaxOffset
    /\ matchPairs' = MatchPairs_displace(matchPairs, disp)
    /\ last' = [op |-> "displace", n |-> disp, ok |-> TRUE, asserted |-> FALSE,
                before |-> matchPairs]
    /\ UNCHANGED <<parse, rendered, lastCall, xdr, templatesCreated, clone>>
    /\ UNCHANGED <<shared, codeMarked, interrupt, exec>>
    /\ UNCHANGED registryVars

\* The owner calls r.execute(cx, input, start, &matches) with the buffer as it is.
execute_begin_reusing(r, chars, latin1, start) ==
    /\ exec.pc = "idle"
    /\ r \in guards
    /\ matchPairs.kind \in {"scoped", "vector"}
    /\ exec' = [pc |-> "compile", re |-> r, chars |-> chars, latin1 |-> latin1,
                origStart |-> start, start |-> start,
                mode |-> Normal,
                matches |-> matchPairs,
                charsOffset |-> 0, length |-> 0, origLength |-> 0, displacement |-> 0,
                result |-> "none", cause |-> "none", status |-> "none",
                from |-> "none", retried |-> FALSE, entry |-> shared[r]]
    /\ UNCHANGED <<shared, codeMarked, interrupt>>
    /\ last' = NoOp
    /\ UNCHANGED auxVars
    /\ UNCHANGED registryVars

\* execute returns to the owner of the buffer, who keeps it.
execute_return_kept ==
    /\ exec.pc = "done"
    /\ ~exec.matches.null
    /\ exec' = NoExec
    /\ matchPairs' = exec.matches
    /\ last' = [op |-> "execute", n |-> pairCount(shared[exec.re]),
                ok |-> exec.status # RegExpRunStatus_Error, asserted |-> FALSE,
                before |-> matchPairs]
    /\ UNCHANGED <<shared, codeMarked, interrupt, parse, rendered, lastCall, xdr,
                   templatesCreated, clone>>
    /\ UNCHANGED registryVars

PairsChars == <<"x", "a">>

\* A registry with a record without groups and a record with one group, both
\* guarded, and an empty buffer of either class.
InitPairs ==
    /\ shared = [r \in Ids |-> IF r = 1 THEN RegExpShared_ctor(<<"a">>, {IgnoreCaseFlag})
                                ELSE IF r = 2 THEN RegExpShared_ctor(<<"(", "a", ")">>, {})
                                ELSE NoShared]
    /\ got = [j \in Keys |-> 0]
    /\ alive = {1, 2}
    /\ allocated = 2
    /\ set_ = {1, 2}
    /\ guards = {1, 2}
    /\ handedOut = {}
    /\ last = NoOp
    /\ matchResultTemplateObject_ = FALSE
    /\ gcPhase = "idle"
    /\ preservingCode = FALSE
    /\ atomMarked = {}
    /\ codeMarked = {}
    /\ tmplMarked = FALSE
    /\ objTraced = {}
    /\ objKey = [o \in Objects |-> NoKey]
    /\ objShared = [o \in Objects |-> 0]
    /\ interrupt = FALSE
    /\ exec = NoExec
    /\ parse = NoParse
    /\ rendered = NoString
    /\ lastCall = NoHistory
    /\ xdr = NoXdr
    /\ matchPairs \in {FreshMatchPairs, FreshVectorMatchPairs}
    /\ templatesCreated = 0
    /\ clone = NoClone

NextPairs ==
    \/ \E n \in 0..MaxPairs, allocOk \in BOOLEAN, junk \in JunkPairs :
          MatchPairs_initArray_call(n, allocOk, junk)
    \/ \E disp \in 0..MaxOffset : MatchPairs_displace_call(disp)
    \/ \E r \in Ids : execute_begin_reusing(r, PairsChars, TRUE, 0)
    \/ \E code \in {"jit", "byte"} : execute_compile(TRUE, code)
    \/ \E allocOk \in BOOLEAN, junk \in JunkPairs : execute_allocate(allocOk, junk)
    \/ execute_interpret(TRUE, "run")
    \/ execute_native("run")
    \/ execute_native_result
    \/ execute_return_kept

SpecPairs == InitPairs /\ [][NextPairs]_vars

----------------------------------------------------------------------------
(* Properties of the registry (Spec) *)

\* C1 as stated: for every (source, flags), a get returns the instance the
\* previous get with the same source and flags returned.
C1_SameInstanceAlways ==
    (last.op = "get" /\ last.before # 0) => last.ret = last.before

\* C1: for every (source, flags), a get returns the instance the previous get
\* with the same source and flags returned, as long as no sweep destroyed that
\* instance in between.
C1_SameInstanceWhileAlive ==
    (last.op = "get" /\ last.before # 0 /\ last.beforeAlive) => last.ret = last.before

\* A second get for a key whose first instance still exists returned that instance.
C1_Witness ==
    /\ last.op = "get"
    /\ last.before # 0
    /\ last.beforeAlive
    /\ last.ret = last.before

\* C2: after any sequence of get and sweep the set holds at most one
\* RegExpShared per (source, flags), and every entry is a record that has not
\* been destroyed.
C2_OneRecordPerKey ==
    /\ set_ \subseteq alive
    /\ \A r \in set_ : shared[r].live
    /\ \A r1, r2 \in set_ : KeyOf(shared[r1]) = KeyOf(shared[r2]) => r1 = r2

\* Two keys are registered after a sweep destroyed an earlier record and a
\* get created a new one.
C2_Witness ==
    /\ last.op = "get"
    /\ Cardinality(set_) = 2
    /\ allocated > Cardinality(alive)

\* C4 as stated: sweep removes and destroys every record that is unmarked and
\* has no live reference.
C4_UnmarkedUnreferencedRemovedAlways ==
    last.op = "sweep" =>
        \A r \in last.pre :
            (r \notin last.marked /\ r \notin last.referenced)
                => (r \notin set_ /\ r \notin alive)

\* C4: a sweep that runs while the heap is not compacting removes and destroys
\* every record that is unmarked and has no live reference.
C4_UnmarkedUnreferencedRemoved ==
    (last.op = "sweep" /\ ~last.compacting) =>
        \A r \in last.pre :
            (r \notin last.marked /\ r \notin last.referenced)
                => (r \notin set_ /\ r \notin alive)

\* A sweep of a heap that is not compacting destroyed an unmarked record that
\* nothing referenced.
C4_Witness ==
    /\ last.op = "sweep"
    /\ ~last.compacting
    /\ \E r \in last.pre : /\ r \notin last.marked
                           /\ r \notin last.referenced
                           /\ r \notin set_
                           /\ r \notin alive

\* C6: a record get or getShared returns while the zone is marking is marked
\* before it is handed out and stays marked while the marking goes on, and the
\* sweep that ends the collection does not destroy it while its source and
\* its code are live.
C6_ReadBarrier ==
    /\ (last.op \in {"get", "getShared"} /\ last.barrier) => shared[last.ret].marked_
    /\ gcPhase = "mark" => \A r \in handedOut : r \in alive /\ shared[r].marked_
    /\ (last.op = "sweep" /\ ~last.compacting) =>
          \A r \in last.handedOut :
              (r \notin last.sourceDying /\ r \notin last.codeDying)
                  => (r \in set_ /\ r \in alive)

\* The sweep that ended a collection kept a record that was handed out while
\* the zone was marking and that nothing referenced any more.
C6_Witness ==
    /\ last.op = "sweep"
    /\ ~last.compacting
    /\ \E r \in last.handedOut : /\ r \notin last.referenced
                                 /\ r \notin last.sourceDying
                                 /\ r \in set_

----------------------------------------------------------------------------
(* Properties of an execute call in flight while collections run (SpecGuard) *)

\* C3: sweep retains an entry exactly when (it is marked and its source is not
\* about to be finalized and none of its populated jitCode slots is about to
\* be finalized) or the heap is compacting; every other record is destroyed
\* and its entry removed.
C3_SweepRetention ==
    last.op = "sweep" =>
        \A r \in last.pre :
            IF \/ (r \in last.marked /\ r \notin last.sourceDying /\ r \notin last.codeDying)
               \/ last.compacting
            THEN r \in set_ /\ r \in alive /\ shared[r].live
            ELSE r \notin set_ /\ r \notin alive

\* A sweep kept one record and destroyed another that was marked, with a
\* live source, and whose jitCode was about to be finalized.
C3_Witness ==
    /\ last.op = "sweep"
    /\ \E r \in last.pre : r \in set_
    /\ \E r \in last.pre : /\ r \in last.marked
                           /\ r \notin last.sourceDying
                           /\ r \in last.codeDying
                           /\ r \notin set_

\* C5: the record an execute call in flight holds a guard on is never
\* destroyed: at every point of the call the record exists and is in the set,
\* and so does every record a guard refers to.
C5_GuardedRecordSurvives ==
    /\ exec.pc # "idle" =>
          (exec.re \in guards /\ exec.re \in alive /\ exec.re \in set_
           /\ shared[exec.re].live)
    /\ guards \subseteq alive

\* A sweep ran in the middle of an execute call, destroyed another record and
\* left the record of the call.
C5_Witness ==
    /\ last.op = "sweep"
    /\ ~last.compacting
    /\ last.inExecute
    /\ exec.re \in set_
    /\ last.pre # set_

----------------------------------------------------------------------------
(* Properties of execute (SpecExec) *)

ExecutingPcs == {"literal", "interp", "native", "native_ret"}

\* The state of the call in the words of the state machine.
phase ==
    IF exec.pc = "idle" THEN "Idle"
    ELSE IF exec.pc = "compile" THEN "Compiling"
    ELSE IF exec.pc = "compiled" THEN "Compiled"
    ELSE IF exec.pc = "native_ret" /\ exec.result = RegExpRunStatus_Success THEN "Matched"
    ELSE IF exec.pc = "native_ret" /\ exec.result = RegExpRunStatus_Success_NotFound
    THEN "NoMatch"
    ELSE IF exec.pc \in ExecutingPcs THEN "Executing"
    ELSE IF exec.pc = "poll" THEN "Interrupted"
    ELSE exec.status

\* The edges of the state machine as it is drawn, with the return of Error on
\* a failed allocation of the buffer.
DiagramEdges ==
    {<<"Idle", "Compiling">>,
     <<"Compiling", "Compiled">>, <<"Compiling", RegExpRunStatus_Error>>,
     <<"Compiled", "Executing">>, <<"Compiled", RegExpRunStatus_Error>>,
     <<"Executing", "Interrupted">>, <<"Interrupted", "Executing">>,
     <<"Executing", RegExpRunStatus_Error>>,
     <<"Executing", "NoMatch">>, <<"NoMatch", RegExpRunStatus_Success_NotFound>>,
     <<"Executing", RegExpRunStatus_Success_NotFound>>,
     <<"Executing", "Matched">>, <<"Matched", RegExpRunStatus_Success>>,
     <<"Executing", RegExpRunStatus_Success>>,
     <<RegExpRunStatus_Error, "Idle">>,
     <<RegExpRunStatus_Success_NotFound, "Idle">>,
     <<RegExpRunStatus_Success, "Idle">>}

\* What holds of a call wherever it is: it returns one of the three statuses,
\* a return before Executing is Error, and Executing is entered only with the
\* record compiled and the buffer allocated.
StateMachineInv ==
    /\ exec.pc = "done" =>
          /\ exec.status \in {RegExpRunStatus_Error, RegExpRunStatus_Success,
                              RegExpRunStatus_Success_NotFound}
          /\ exec.from \in {"compile", "compiled"} => exec.status = RegExpRunStatus_Error
    /\ exec.pc \in ExecutingPcs \cup {"compiled", "poll"} =>
          \/ shared[exec.re].canStringMatch
          \/ isCompiled(shared[exec.re], <<exec.mode, exec.latin1>>)
    /\ (exec.pc \in ExecutingPcs \cup {"poll"} /\ ~exec.matches.null) =>
          exec.matches.pairCount_ = pairCount(shared[exec.re])

\* C7 as stated: every call follows Start -> Compiling -> (CompileFailed ->
\* Error) | Compiled -> Executing -> (Interrupted -> Executing | InternalError
\* -> Error | NoMatch -> NotFound | Matched -> PostProcess -> Success).
C7_StateMachineAsDrawn ==
    [][phase' = phase \/ <<phase, phase'>> \in DiagramEdges]_vars

\* C7: every call follows the state machine with one more edge, Interrupted ->
\* Error when the interrupt callback asks for termination; it returns exactly
\* one of NotFound, Success, Error, and a failure to compile or to allocate
\* the buffer returns Error without entering Executing.
C7_StateMachine ==
    /\ []StateMachineInv
    /\ [][\/ phase' = phase
          \/ <<phase, phase'>> \in DiagramEdges
          \/ <<phase, phase'>> = <<"Interrupted", RegExpRunStatus_Error>>]_vars

\* A call returned Error from Interrupted.
C7_Witness ==
    /\ exec.pc = "done"
    /\ exec.from = "poll"
    /\ exec.status = RegExpRunStatus_Error

\* C8 as stated: whenever the execution, bytecode or native, reports an abort
\* caused by an interrupt request, execute polls the interrupt callback before
\* it returns.
C8_EveryInterruptAbortPolls ==
    (exec.pc = "done" /\ exec.cause = "interrupt") => exec.from = "poll"

\* C8: when the native code returns Error and the interrupt flag is set as
\* execute reads it, execute polls the interrupt callback; after the poll it
\* either runs the same attempt again from scratch or returns Error. The
\* bytecode path returns what the interpreter returned, without a poll.
C8_NativeInterruptPolls ==
    [][/\ (exec.pc = "native_ret" /\ exec.result = RegExpRunStatus_Error
           /\ interrupt /\ exec' # exec) => exec'.pc = "poll"
       /\ (exec.pc = "poll" /\ exec' # exec) =>
             \/ exec' = [exec EXCEPT !.pc = "native", !.retried = TRUE]
             \/ (exec'.pc = "done" /\ exec'.status = RegExpRunStatus_Error)
       /\ (exec.pc = "interp" /\ exec' # exec) => exec'.pc = "done"]_vars

\* A call whose native code was interrupted polled the callback, ran the
\* attempt again and returned Success.
C8_Witness ==
    /\ exec.pc = "done"
    /\ exec.retried
    /\ exec.from = "native_ret"
    /\ exec.status = RegExpRunStatus_Success

\* C9 as stated: when the native code reports an internal error, execute
\* returns Error at once, whatever the interrupt flag is.
C9_InternalErrorReturnsAlways ==
    [][(exec.pc = "native_ret" /\ exec.cause = "internal" /\ exec' # exec)
          => (exec'.pc = "done" /\ exec'.status = RegExpRunStatus_Error)]_vars

\* C9: when the execution reports an internal error, execute returns Error at
\* once and does not retry, on the bytecode path always and on the native path
\* when the interrupt flag is clear as execute reads it.
C9_InternalErrorReturns ==
    [][/\ (exec.pc = "native_ret" /\ exec.cause = "internal" /\ ~interrupt
           /\ exec' # exec)
             => (exec'.pc = "done" /\ exec'.status = RegExpRunStatus_Error)
       /\ (exec.pc = "interp" /\ exec' # exec /\ exec'.cause = "internal")
             => (exec'.pc = "done" /\ exec'.status = RegExpRunStatus_Error)]_vars

\* The native code reported an internal error with the flag clear and the
\* call returned Error.
C9_Witness ==
    /\ exec.pc = "done"
    /\ exec.from = "native_ret"
    /\ exec.cause = "internal"
    /\ exec.status = RegExpRunStatus_Error
    /\ ~exec.retried

\* The characters of source are in chars from position s on.
SourceAt(source, chars, s) ==
    /\ s + Len(source) <= Len(chars)
    /\ \A i \in 1..Len(source) : chars[s + i] = source[i]

\* C10: a sticky record's execute with startOffset s succeeds only when the
\* pattern matches beginning exactly at position s of the input, and the
\* whole match it returns is (s, s + the length of the match) in the input.
C10_StickyMatchesAtStartOnly ==
    (exec.pc = "done" /\ sticky(shared[exec.re])
     /\ exec.status = RegExpRunStatus_Success) =>
        /\ SourceAt(shared[exec.re].source, exec.chars, exec.origStart)
        /\ ~exec.matches.null =>
              exec.matches.pairs[1] =
                  Pair(exec.origStart, exec.origStart + Len(shared[exec.re].source))

----------------------------------------------------------------------------
(* Properties of the literal path (SpecLiteral) *)

\* The positions at or after s where the source text stands in the characters.
Occurrences(source, chars, s) == {p \in s..Len(chars) : SourceAt(source, chars, p)}

\* C11: on the literal path execute returns Success with the single pair
\* (p, p + the length of the source), p the first occurrence of the source
\* text in the input at or after startOffset, and NotFound when there is none.
C11_LiteralFirstOccurrence ==
    (exec.pc = "done" /\ exec.from = "literal") =>
        LET source == shared[exec.re].source
            occ == Occurrences(source, exec.chars, exec.origStart)
        IN
        IF occ = {}
        THEN exec.status = RegExpRunStatus_Success_NotFound
        ELSE /\ exec.status = RegExpRunStatus_Success
             /\ ~exec.matches.null =>
                   /\ exec.matches.pairCount_ = 1
                   /\ \E p \in occ :
                         /\ \A q \in occ : p <= q
                         /\ exec.matches.pairs = <<Pair(p, p + Len(source))>>

\* Source "abc" without flags on "xxabcxx" from 0 returned Success with (2,5).
C11_Witness ==
    /\ exec.pc = "done"
    /\ exec.from = "literal"
    /\ shared[exec.re].source = <<"a", "b", "c">>
    /\ shared[exec.re].flags = {}
    /\ exec.chars = <<"x", "x", "a", "b", "c", "x", "x">>
    /\ exec.origStart = 0
    /\ exec.status = RegExpRunStatus_Success
    /\ exec.matches.pairs = <<Pair(2, 5)>>

----------------------------------------------------------------------------
(* Properties of compilation (SpecCompile) *)

\* The record compileIfNecessary was last called on, and whether the call
\* succeeded: execute goes on to "compiled" exactly then.
CompileSucceeded == last.op = "compile" /\ exec.pc = "compiled"
CompileFailed == last.op = "compile" /\ exec.pc = "done"

\* C12 as stated: the canStringMatch flag of a compiled record is true if
\* and only if its source has no metacharacters and ignore-case is not set.
C12_LiteralIffNoMetaNoIgnoreCase ==
    CompileSucceeded =>
        LET sh == shared[last.re] IN
        sh.canStringMatch <=> (~StringHasRegExpMetaChars(sh.source) /\ ~ignoreCase(sh))

\* C12: the canStringMatch flag of a compiled record is true if and only if
\* its source has no metacharacters and neither ignore-case nor sticky is
\* set; it is false before the first compile and a failed compile leaves it
\* false; so it is false for every record with ignore-case set.
C12_LiteralIffNoMetaNoIgnoreCaseNoSticky ==
    /\ \A r \in alive :
          shared[r].canStringMatch =>
              /\ ~StringHasRegExpMetaChars(shared[r].source)
              /\ ~ignoreCase(shared[r])
              /\ ~sticky(shared[r])
    /\ CompileSucceeded =>
          LET sh == shared[last.re] IN
          sh.canStringMatch <=> /\ ~StringHasRegExpMetaChars(sh.source)
                                /\ ~ignoreCase(sh)
                                /\ ~sticky(sh)
    /\ CompileFailed => ~shared[last.re].canStringMatch

\* A record with ignore-case, global and multiline set and a source without
\* metacharacters was compiled and is not eligible; so was a sticky one.
C12_Witness ==
    /\ CompileSucceeded
    /\ shared[last.re].source = <<"a">>
    /\ shared[last.re].flags = {IgnoreCaseFlag, GlobalFlag, MultilineFlag}
    /\ ~shared[last.re].canStringMatch

----------------------------------------------------------------------------
(* Properties of the flags (SpecFlags) *)

\* Character ch occurs in the string.
Occurs(ch, chars) == \E i \in 1..Len(chars) : chars[i] = ch

\* C13: on success the flags ParseRegExpFlags leaves are exactly those of the
\* letters that occur in the input, 'i' ignore-case, 'g' global, 'm'
\* multiline, 'y' sticky, in any order; the empty input succeeds with no flag.
C13_ParseMapsLetters ==
    parse.called =>
        /\ parse.ok =>
              /\ parse.flagsOut \subseteq AllFlags
              /\ IgnoreCaseFlag \in parse.flagsOut <=> Occurs("i", parse.chars)
              /\ GlobalFlag \in parse.flagsOut <=> Occurs("g", parse.chars)
              /\ MultilineFlag \in parse.flagsOut <=> Occurs("m", parse.chars)
              /\ StickyFlag \in parse.flagsOut <=> Occurs("y", parse.chars)
        /\ parse.chars = <<>> => (parse.ok /\ parse.flagsOut = {})

\* "ymig" was parsed into the four flags.
C13_Witness ==
    /\ parse.called
    /\ parse.ok
    /\ parse.chars = <<"y", "m", "i", "g">>
    /\ parse.flagsOut = {IgnoreCaseFlag, GlobalFlag, MultilineFlag, StickyFlag}

\* The first character of the string that is no flag letter or repeats an
\* earlier one is at index k.
FirstOffending(chars, k) ==
    /\ k \in 1..Len(chars)
    /\ chars[k] \notin FlagLetters \/ \E j \in 1..(k - 1) : chars[j] = chars[k]
    /\ \A l \in 1..(k - 1) :
          chars[l] \in FlagLetters /\ \A j \in 1..(l - 1) : chars[j] # chars[l]

\* C14: a flag string with a character outside {i,g,m,y} or with a repeated
\* letter fails, and only such a string; the error reports exactly the first
\* offending character.
C14_ErrorReportsOffendingChar ==
    parse.called =>
        /\ parse.ok <=> ~\E k \in 1..Len(parse.chars) : FirstOffending(parse.chars, k)
        /\ \A k \in 1..Len(parse.chars) :
              FirstOffending(parse.chars, k) => parse.charBuf = <<parse.chars[k]>>

\* The letters of the set flags in the order g, i, m, y.
CanonicalLetters(flags) ==
    LET IsSet(ch) == FlagOfLetter(ch) \subseteq flags IN
    SelectSeq(<<"g", "i", "m", "y">>, IsSet)

\* The object the strings are rendered from.
TheObject == CHOOSE o \in Objects : TRUE

\* C15: toString renders '/' source '/' followed by the letters of the set
\* flags in the order g, i, m, y, and an empty source as "/(?:)/" followed by
\* the same letters.
C15_ToStringForm ==
    rendered # NoString =>
        LET source == objKey[TheObject][1]
            flags == objKey[TheObject][2]
        IN
        rendered = (IF source = <<>> THEN <<"/", "(", "?", ":", ")", "/">>
                    ELSE <<"/">> \o source \o <<"/">>)
                   \o CanonicalLetters(flags)

\* An object with an empty source and the four flags was rendered as "/(?:)/gimy".
C15_Witness ==
    /\ objKey[TheObject] = <<<<>>, {IgnoreCaseFlag, GlobalFlag, MultilineFlag, StickyFlag}>>
    /\ rendered = <<"/", "(", "?", ":", ")", "/", "g", "i", "m", "y">>

\* The flag letters at the end of a rendered string.
RenderedLetters ==
    LET source == objKey[TheObject][1]
        body == IF source = <<>> THEN 6 ELSE Len(source) + 2
    IN SubSeq(rendered, body + 1, Len(rendered))

\* C16: parsing the letters toString renders for a flag set gives back the
\* flag set, and the letters rendered for the flags parsed from a string
\* without repetition are the letters of the string in the order g, i, m, y.
C16_RoundTrip ==
    rendered # NoString =>
        /\ ParseRegExpFlags(RenderedLetters).ok
        /\ ParseRegExpFlags(RenderedLetters).flagsOut = objKey[TheObject][2]
        /\ objKey[TheObject][2] = parse.flagsOut
        /\ LET InString(ch) == Occurs(ch, parse.chars) IN
           RenderedLetters = SelectSeq(<<"g", "i", "m", "y">>, InString)

\* "mgi" was parsed and the object initialised with its flags rendered "/a/gim".
C16_Witness ==
    /\ parse.called
    /\ parse.chars = <<"m", "g", "i">>
    /\ rendered = <<"/", "a", "/", "g", "i", "m">>

----------------------------------------------------------------------------
(* Properties of compilation (SpecCompile, SpecTwice) *)

\* C17: a slot that holds code is never written again: a compileIfNecessary
\* for a slot that holds code succeeds and leaves the record as it was, and no
\* step changes the contents of a slot that holds code.
C17_SlotCompiledOnce ==
    [][/\ \A r \in alive, slot \in Slots :
             isCompiled(shared[r], slot) =>
                shared'[r].compilationArray[slot] = shared[r].compilationArray[slot]
       /\ (last'.op = "compile" /\ isCompiled(last'.before, last'.slot)) =>
             /\ exec'.pc = "compiled"
             /\ shared'[last'.re] = last'.before]_vars

\* compileIfNecessary was called for a slot that held code, with a compiler
\* that would have produced other code, and succeeded.
C17_Witness ==
    /\ last.op = "compile"
    /\ isCompiled(last.before, last.slot)
    /\ last.before.compilationArray[last.slot].jitCode
    /\ last.code = "byte"
    /\ exec.pc = "compiled"

\* compileIfNecessary went into compile, and compile got its pattern parsed.
CompileParsed ==
    /\ last.op = "compile"
    /\ ~isCompiled(last.before, last.slot)
    /\ ~last.before.canStringMatch
    /\ sticky(last.before) => last.atomOk
    /\ ignoreCase(last.before) \/ StringHasRegExpMetaChars(compiledPattern(last.before))
    /\ ParsePatternOk(compiledPattern(last.before))

\* C19 as stated: a compile that fails does not write the capture-group count.
C19_FailedCompileKeepsParenCount ==
    CompileFailed => shared[last.re].parenCount = last.before.parenCount

\* C19: every compile that gets its pattern parsed stores the capture-group
\* count, whether or not code generation then succeeds; a compile that fails
\* earlier leaves it alone; every store is of the count of the record's pattern
\* (0 on the literal path), so the count of a record with a compiled slot or a
\* literal pattern is that value and later compiles leave it as it is.
C19_ParenCountStoredAtParse ==
    /\ CompileParsed => shared[last.re].parenCount = capture_count(compiledPattern(last.before))
    /\ (CompileFailed /\ ~CompileParsed) => shared[last.re].parenCount = last.before.parenCount
    /\ \A r \in alive :
          /\ shared[r].canStringMatch => shared[r].parenCount = 0
          /\ (\E slot \in Slots : isCompiled(shared[r], slot)) =>
                shared[r].parenCount = capture_count(compiledPattern(shared[r]))
    /\ (last.op = "compile" /\ (last.before.canStringMatch
                                \/ \E slot \in Slots : isCompiled(last.before, slot))) =>
          shared[last.re].parenCount = last.before.parenCount

\* A compile of "(a)" failed in code generation and left the count at 1.
C19_Witness ==
    /\ CompileFailed
    /\ CompileParsed
    /\ last.before.parenCount = 0
    /\ shared[last.re].parenCount = 1

\* The previous call of execute failed in compileIfNecessary, and this call
\* is for the same record, mode and width and has gone through
\* compileIfNecessary.
CompiledAfterFailure ==
    /\ last.op = "compile"
    /\ lastCall.kept
    /\ lastCall.status = RegExpRunStatus_Error
    /\ lastCall.from = "compile"
    /\ lastCall.re = last.re
    /\ last.slot = <<IF lastCall.wantMatches THEN Normal ELSE MatchOnly, lastCall.latin1>>

\* C18 as stated: a failed compile makes execute return Error with the slot
\* unpopulated, and the next execute with the same mode compiles again and
\* fails again.
C18_FailsAgain ==
    /\ CompileFailed =>
          /\ exec.status = RegExpRunStatus_Error
          /\ ~isCompiled(shared[last.re], last.slot)
    /\ CompiledAfterFailure => CompileFailed

\* C18: a failed compile makes execute return Error with the slot unpopulated;
\* the next execute with the same mode compiles again, and its outcome is that
\* of this new attempt alone: it fails again when the pattern does not parse
\* and whenever the atom or the code cannot be produced this time too, and
\* succeeds otherwise; the generated code is run only from a populated slot.
C18_CompilesAgain ==
    /\ CompileFailed =>
          /\ exec.status = RegExpRunStatus_Error
          /\ ~isCompiled(shared[last.re], last.slot)
          /\ ~shared[last.re].canStringMatch
    /\ CompiledAfterFailure =>
          /\ ~isCompiled(last.before, last.slot)
          /\ ~last.before.canStringMatch
          /\ CompileFailed <=>
                \/ ~ParsePatternOk(compiledPattern(last.before))
                \/ sticky(last.before) /\ ~last.atomOk
                \/ last.code = "empty"
          /\ CompileSucceeded => isCompiled(shared[last.re], last.slot)
    /\ exec.pc \in {"interp", "native", "native_ret", "poll"} =>
          isCompiled(shared[exec.re], <<exec.mode, exec.latin1>>)

\* A compile failed, and the compile of the next call for the same slot succeeded.
C18_Witness ==
    /\ CompiledAfterFailure
    /\ CompileSucceeded
    /\ isCompiled(shared[last.re], last.slot)

\* An execute has returned, and the call before it had the same arguments.
SameCallAgain ==
    /\ exec.pc = "done"
    /\ lastCall.kept
    /\ lastCall.status # "none"
    /\ lastCall.re = exec.re
    /\ lastCall.chars = exec.chars
    /\ lastCall.latin1 = exec.latin1
    /\ lastCall.start = exec.origStart
    /\ lastCall.wantMatches = ~exec.matches.null

\* C20 as stated: two calls of execute with the same arguments return the same
\* status and the same pairs.
C20_SameResultAlways ==
    SameCallAgain =>
        /\ exec.status = lastCall.status
        /\ exec.matches.pairs = lastCall.pairs

\* C20: two calls of execute with the same arguments of which neither returns
\* Error return the same status and, on Success, the same pairs, whether or
\* not one of them compiled the record or was aborted by an interrupt and
\* retried.
C20_SameResultUnlessError ==
    (/\ SameCallAgain
     /\ exec.status # RegExpRunStatus_Error
     /\ lastCall.status # RegExpRunStatus_Error) =>
        /\ exec.status = lastCall.status
        /\ exec.status = RegExpRunStatus_Success => exec.matches.pairs = lastCall.pairs

\* The call that compiled the record was interrupted, retried and matched, and
\* the same call made again matched the same pairs without a retry.
C20_Witness ==
    /\ SameCallAgain
    /\ lastCall.retried
    /\ ~exec.retried
    /\ lastCall.status = RegExpRunStatus_Success
    /\ exec.status = RegExpRunStatus_Success
    /\ ~exec.matches.null
    /\ exec.matches.pairs = lastCall.pairs
    /\ exec.matches.pairs # <<>>

----------------------------------------------------------------------------
(* Properties of a failing execution (SpecTwice) *)

\* The position execute finds for a record, an input and a start, or -1: a
\* sticky record is matched against the input from start on.
ExpectedMatch(sh, chars, start) ==
    IF sticky(sh)
    THEN LET p == FirstMatch(sh, SubSeq(chars, start + 1, Len(chars)), 0,
                             Len(chars) - start)
         IN IF p = -1 THEN -1 ELSE p + start
    ELSE FirstMatch(sh, chars, start, Len(chars))

\* The execution of this call reported an internal error.
InternalErrorReturned ==
    /\ exec.pc = "done"
    /\ exec.cause = "internal"
    /\ exec.status = RegExpRunStatus_Error

\* C21 as stated: a call of execute that fails with an internal execution
\* error returns with the record as it was when the call was made.
C21_RecordAsAtCall ==
    InternalErrorReturned => shared[exec.re] = exec.entry

\* C21: in a call of execute nothing after compileIfNecessary writes the
\* record, so a call that fails with an internal execution error leaves the
\* source, the flags and every slot that held code as they were at the call,
\* and what its own compileIfNecessary stored stays; the next execute on the
\* record, unless it returns Error itself, returns what the record, the input
\* and the start determine.
C21_ErrorKeepsRecord ==
    [][/\ exec.pc \notin {"idle", "compile"} => shared' = shared
       /\ InternalErrorReturned' =>
             /\ shared'[exec'.re].source = exec'.entry.source
             /\ shared'[exec'.re].flags = exec'.entry.flags
             /\ \A slot \in Slots :
                   isCompiled(exec'.entry, slot) =>
                      shared'[exec'.re].compilationArray[slot] =
                         exec'.entry.compilationArray[slot]
             /\ isCompiled(shared'[exec'.re], <<exec'.mode, exec'.latin1>>)
             /\ shared'[exec'.re].parenCount = capture_count(compiledPattern(exec'.entry))
       /\ (/\ exec'.pc = "done"
           /\ exec'.status # RegExpRunStatus_Error
           /\ lastCall'.kept
           /\ lastCall'.status = RegExpRunStatus_Error
           /\ lastCall'.cause = "internal"
           /\ lastCall'.re = exec'.re) =>
             LET p == ExpectedMatch(shared'[exec'.re], exec'.chars, exec'.origStart) IN
             /\ exec'.status = IF p = -1 THEN RegExpRunStatus_Success_NotFound
                               ELSE RegExpRunStatus_Success
             /\ (p # -1 /\ ~exec'.matches.null) =>
                   exec'.matches.pairs =
                      MatchedPairs(shared'[exec'.re], p, pairCount(shared'[exec'.re]))]_vars

\* A call that compiled its slot failed with an internal error, and the next
\* call of execute on the record matched.
C21_Witness ==
    /\ exec.pc = "done"
    /\ exec.status = RegExpRunStatus_Success
    /\ ~exec.matches.null
    /\ exec.entry = shared[exec.re]
    /\ lastCall.kept
    /\ lastCall.status = RegExpRunStatus_Error
    /\ lastCall.cause = "internal"
    /\ lastCall.re = exec.re

\* C22: when execute returns Success to a caller that asked for the matches,
\* every pair is (-1,-1) or has 0 <= start <= limit <= the length of the
\* input, and for a sticky record no offset that is not negative is below the
\* start the caller gave.
C22_PairsWithinInput ==
    (exec.pc = "done" /\ exec.status = RegExpRunStatus_Success /\ ~exec.matches.null) =>
        /\ Len(exec.matches.pairs) = exec.matches.pairCount_
        /\ \A i \in 1..exec.matches.pairCount_ :
              LET pair == exec.matches.pairs[i] IN
              /\ \/ pair = Pair(-1, -1)
                 \/ (0 <= pair.start /\ pair.start <= pair.limit
                     /\ pair.limit <= Len(exec.chars))
              /\ sticky(shared[exec.re]) =>
                    /\ pair.start >= 0 => pair.start >= exec.origStart
                    /\ pair.limit >= 0 => pair.limit >= exec.origStart

\* A sticky "(a)" matched "xa" from start 1: both pairs are (1,2), displaced
\* by the start.
C22_Witness ==
    /\ exec.pc = "done"
    /\ exec.status = RegExpRunStatus_Success
    /\ sticky(shared[exec.re])
    /\ exec.origStart = 1
    /\ exec.displacement = 1
    /\ ~exec.matches.null
    /\ exec.matches.pairs = <<Pair(1, 2), Pair(1, 2)>>

----------------------------------------------------------------------------
(* Properties of the serialized form (SpecXDR) *)

\* C23: the object decoded from the encoding of an object has the source and
\* the flags of that object and no RegExpShared, and the encoding itself is
\* the source and a word in which exactly the bits of the object's flags are set.
C23_DecodeKeepsSourceAndFlags ==
    /\ xdr.mode \in {"encoded", "decoded"} =>
          /\ xdr.source = objKey[TheObject][1]
          /\ xdr.flagsword \in 0..15
          /\ \A flag \in AllFlags :
                flag \in objKey[TheObject][2] <=> (xdr.flagsword \div FlagBit(flag)) % 2 = 1
    /\ xdr.mode = "decoded" =>
          /\ xdr.reobj.key[1] = objKey[TheObject][1]
          /\ xdr.reobj.key[2] = objKey[TheObject][2]
          /\ xdr.reobj.shared = 0

\* A sticky multiline object that has a RegExpShared was encoded and decoded.
C23_Witness ==
    /\ xdr.mode = "decoded"
    /\ objShared[TheObject] # 0
    /\ xdr.flagsword = 12
    /\ xdr.reobj.key = <<<<"a">>, {StickyFlag, MultilineFlag}>>
    /\ xdr.reobj.shared = 0

----------------------------------------------------------------------------
(* Properties of the MatchPairs buffers (SpecPairs) *)

\* Every pair of the buffer is (-1, -1).
AllInvalid(m) == \A i \in 1..Len(m.pairs) : m.pairs[i] = Pair(-1, -1)

\* C24 as stated: initArray(n) with n > 0 succeeds and leaves the buffer with
\* n pairs, all (-1, -1), whatever the buffer held before.
C24_InitArraySucceeds ==
    (last.op = "initArray" /\ last.n > 0) =>
        /\ last.ok
        /\ ~last.asserted
        /\ matchPairs.pairCount_ = last.n
        /\ Len(matchPairs.pairs) = last.n
        /\ AllInvalid(matchPairs)

\* C24: initArray(n) with n > 0 fails an assertion on a scoped buffer that
\* holds another number of pairs, and on no other buffer; otherwise it
\* returns false and leaves the buffer as it was when the storage it needs
\* cannot be allocated, which cannot happen to a scoped buffer that holds n
\* pairs already, and else it returns true and leaves the buffer with n
\* pairs, all (-1, -1), whatever the buffer held before.
C24_InitArray ==
    (last.op = "initArray" /\ last.n > 0) =>
        /\ last.asserted <=>
              (last.before.kind = "scoped" /\ last.before.pairCount_ \notin {0, last.n})
        /\ (~last.asserted /\ ~last.ok) =>
              /\ matchPairs = last.before
              /\ last.before.kind = "vector" \/ last.before.pairCount_ = 0
        /\ (~last.asserted /\ last.ok) =>
              /\ matchPairs.kind = last.before.kind
              /\ matchPairs.pairCount_ = last.n
              /\ Len(matchPairs.pairs) = last.n
              /\ AllInvalid(matchPairs)

\* initArray(3) was called on a scoped buffer that held 3 pairs from the
\* initArray(3) before, and left 3 pairs at (-1, -1) again.
C24_Witness ==
    /\ last.op = "initArray"
    /\ last.n = 3
    /\ last.ok
    /\ last.before.kind = "scoped"
    /\ last.before.pairCount_ = 3
    /\ matchPairs.pairs = <<Pair(-1, -1), Pair(-1, -1), Pair(-1, -1)>>

\* C25: a scoped buffer that holds pairs keeps its pair count: a request for
\* the count it has succeeds without allocating and leaves the storage as it
\* is, a request for another count fails the assertion, in initArray and in
\* execute, so that execute on a record with another capture count than the
\* record the buffer was last used with reaches the assertion.
C25_ScopedCountFixed ==
    [][/\ (matchPairs.kind = "scoped" /\ matchPairs.pairCount_ # 0
           /\ matchPairs'.kind = "scoped") =>
             matchPairs'.pairCount_ = matchPairs.pairCount_
       /\ (exec.pc = "compiled" /\ exec.matches.kind = "scoped"
           /\ exec.matches.pairCount_ # 0 /\ exec' # exec) =>
             IF exec.matches.pairCount_ = pairCount(shared[exec.re])
             THEN exec'.pc \notin {"asserted", "done"} /\ exec'.matches = exec.matches
             ELSE exec'.pc = "asserted"
       /\ (exec.pc \notin {"idle", "compile", "compiled"} /\ exec.matches.kind = "scoped"
           /\ exec'.pc # "idle") =>
             exec'.matches.pairCount_ = exec.matches.pairCount_
       /\ (last'.op = "initArray" /\ last'.before.kind = "scoped"
           /\ last'.before.pairCount_ # 0 /\ last'.n > 0) =>
             IF last'.before.pairCount_ = last'.n
             THEN last'.ok /\ ~last'.asserted
             ELSE last'.asserted]_vars

\* A scoped buffer that a record without groups was executed with was passed
\* to execute on a record with one group, and the assertion failed.
C25_Witness ==
    /\ exec.pc = "asserted"
    /\ exec.matches.kind = "scoped"
    /\ exec.matches.pairCount_ = 1
    /\ pairCount(shared[exec.re]) = 2

\* C26: once execute has got the storage for the matches, in a call that is
\* given matches, the buffer holds as many pairs as the record has groups
\* plus one and keeps that number until the call returns, and on Success the
\* first pair is the whole match.
C26_LengthIsParenCountPlusOne ==
    [][/\ (exec'.pc \in {"literal", "interp", "native", "native_ret", "poll"}
           \/ (exec'.pc = "done" /\ exec'.from \notin {"compile", "compiled"})) =>
             (~exec'.matches.null =>
                /\ exec'.matches.pairCount_ = shared'[exec'.re].parenCount + 1
                /\ Len(exec'.matches.pairs) = exec'.matches.pairCount_)
       /\ (exec.pc \in {"literal", "interp", "native", "native_ret", "poll"}
           /\ exec'.pc # "idle") =>
             exec'.matches.pairCount_ = exec.matches.pairCount_
       /\ (exec'.pc = "done" /\ exec'.status = RegExpRunStatus_Success
           /\ ~exec'.matches.null) =>
             exec'.matches.pairs[1].start =
                ExpectedMatch(shared'[exec'.re], exec'.chars, exec'.origStart)]_vars

\* A vector buffer that held one pair was passed to execute on a record with
\* one group, which matched with two pairs.
C26_Witness ==
    /\ exec.pc = "done"
    /\ exec.status = RegExpRunStatus_Success
    /\ exec.matches.kind = "vector"
    /\ matchPairs.pairCount_ = 1
    /\ shared[exec.re].parenCount = 1
    /\ exec.matches.pairs = <<Pair(1, 2), Pair(1, 2)>>

\* C27: displace(amount) adds amount to every start and limit that is not
\* negative and leaves the negative ones, and the number of pairs, as they
\* are; displace(0) changes nothing; displace(a) then displace(b) gives what
\* displace(a + b) gives.
C27_Displace ==
    /\ last.op = "displace" =>
          /\ matchPairs.kind = last.before.kind
          /\ matchPairs.pairCount_ = last.before.pairCount_
          /\ Len(matchPairs.pairs) = Len(last.before.pairs)
          /\ \A i \in 1..Len(matchPairs.pairs) :
                /\ matchPairs.pairs[i].start =
                      IF last.before.pairs[i].start < 0 THEN last.before.pairs[i].start
                      ELSE last.before.pairs[i].start + last.n
                /\ matchPairs.pairs[i].limit =
                      IF last.before.pairs[i].limit < 0 THEN last.before.pairs[i].limit
                      ELSE last.before.pairs[i].limit + last.n
          /\ last.n = 0 => matchPairs = last.before
    /\ matchPairs.kind \in {"scoped", "vector"} =>
          /\ MatchPairs_displace(matchPairs, 0) = matchPairs
          /\ \A a \in 0..MaxOffset, b \in 0..MaxOffset :
                MatchPairs_displace(MatchPairs_displace(matchPairs, a), b) =
                   MatchPairs_displace(matchPairs, a + b)

\* The pairs execute wrote for a match at 1 were displaced by 1.
C27_Witness ==
    /\ last.op = "displace"
    /\ last.n = 1
    /\ last.before.pairs = <<Pair(1, 2), Pair(1, 2)>>
    /\ matchPairs.pairs = <<Pair(2, 3), Pair(2, 3)>>

(* Properties of the template object of match results (Spec) *)

\* C28 as stated: the registry creates its template object at most once.
C28_CreatedAtMostOnce == templatesCreated <= 1

\* C28: the registry holds at most one template object at a time. The field
\* is null at first and changes from null only in a successful creation; a
\* creation is requested only while the field is null, stores the object
\* when it succeeds and leaves null when it fails; the field changes to null
\* only in a sweep, and a sweep clears it exactly when it holds an object
\* that is about to be finalized, whichever records the sweep keeps or
\* destroys. After a sweep has cleared it the next successful creation
\* stores a new object, so that more than one template object can be
\* created over the life of the registry.
C28_TemplateLifecycle ==
    [][/\ (~matchResultTemplateObject_ /\ matchResultTemplateObject_') =>
              (last'.op = "createTemplate" /\ last'.ok)
       /\ (last'.op = "createTemplate" /\ last' # last) =>
              /\ ~matchResultTemplateObject_
              /\ matchResultTemplateObject_' = last'.ok
       /\ (matchResultTemplateObject_ /\ ~matchResultTemplateObject_') =>
              last'.op = "sweep"
       /\ (last'.op = "sweep" /\ last' # last) =>
              matchResultTemplateObject_' = (last'.template /\ ~last'.templateDying)
       /\ templatesCreated' = 2 => templatesCreated = 2 \/ ~matchResultTemplateObject_]_vars

\* A sweep kept one record, destroyed another and cleared the template
\* object, which was not marked.
C28_Witness ==
    /\ last.op = "sweep"
    /\ last.template
    /\ last.templateDying
    /\ ~matchResultTemplateObject_
    /\ set_ # {}
    /\ set_ # last.pre
    /\ templatesCreated = 1

(* Compilation before execution *)

\* The slot of the running execute call in the record it runs on.
RunningSlot == shared[exec.re].compilationArray[<<exec.mode, exec.latin1>>]

\* C29: the interpreter is entered only with bytecode in the slot of the
\* call's mode and character width, native code only with jit code in that
\* slot, and the literal search only on a record whose string-match flag a
\* compile has set.
C29_CompiledBeforeUse ==
    /\ exec.pc = "interp" => RunningSlot.byteCode
    /\ exec.pc = "native" => RunningSlot.jitCode
    /\ exec.pc = "literal" => shared[exec.re].canStringMatch

\* Native code is entered for a call without a MatchPairs on a record whose
\* slot for calls with a MatchPairs holds bytecode, compiled by an earlier
\* call: the slot of this call holds the jit code its own compile stored.
C29_Witness ==
    /\ exec.pc = "native"
    /\ exec.mode = MatchOnly
    /\ RunningSlot.jitCode
    /\ shared[exec.re].compilationArray[<<Normal, exec.latin1>>].byteCode
    /\ ~shared[exec.re].canStringMatch

(* The literal path of compile *)

\* The record is one that compile takes for a literal: compile tests the
\* pattern it is given, which for a sticky record is the source wrapped in
\* ^(?: ), so a sticky record never is.
LiteralEligible(sh) ==
    /\ ~ignoreCase(sh)
    /\ ~sticky(sh)
    /\ ~StringHasRegExpMetaChars(sh.source)

\* C30: a compile of a record that is eligible for the literal path succeeds,
\* leaves the capture count 0 and the string-match flag set and stores no
\* code; compiling such a record again changes nothing. In every state a
\* record with the string-match flag set has four empty slots and capture
\* count 0, and an execute call on it is never in the interpreter or in
\* native code.
C30_LiteralRecord ==
    /\ \A r \in alive :
          shared[r].canStringMatch =>
              /\ \A slot \in Slots : ~isCompiled(shared[r], slot)
              /\ shared[r].parenCount = 0
              /\ \A slot \in Slots, atomOk \in BOOLEAN, code \in {"jit", "byte", "empty"} :
                    RegExpShared_compile(shared[r], slot, atomOk, code) =
                        [ok |-> TRUE, sh |-> shared[r]]
    /\ (last.op = "compile" /\ LiteralEligible(last.before)) =>
          /\ exec.pc = "compiled"
          /\ shared[last.re] = [last.before EXCEPT !.canStringMatch = TRUE,
                                                   !.parenCount = 0]
    /\ exec.pc \in {"interp", "native", "native_ret"} => ~shared[exec.re].canStringMatch

\* The first compile of the record of /a/ with the flags g and m, for a
\* two-byte input and no MatchPairs, with jit code on offer: it set the flag
\* and stored nothing.
C30_Witness ==
    /\ last.op = "compile"
    /\ ~last.before.canStringMatch
    /\ last.before.source = <<"a">>
    /\ last.before.flags = {GlobalFlag, MultilineFlag}
    /\ last.slot = <<MatchOnly, FALSE>>
    /\ last.code = "jit"
    /\ shared[last.re].canStringMatch
    /\ \A slot \in Slots : ~isCompiled(shared[last.re], slot)

(* The mode of an execute call *)

\* The slots of the record of the running call that are not of its mode.
OtherModeSlots == {slot \in Slots : slot[1] # exec.mode}

\* C31: an execute call runs in Normal mode exactly when it was given a
\* MatchPairs and in MatchOnly mode otherwise, and keeps its mode to its
\* return. A call compiles the slot of its own mode and leaves the slots of
\* the other mode as they are; it enters the interpreter only with bytecode
\* and native code only with jit code in the slot of its own mode; a
\* MatchOnly call has no MatchPairs at any step.
C31_ModeBySuppliedBuffer ==
    [][/\ exec'.pc # "idle" =>
             /\ exec'.mode \in Modes
             /\ exec'.mode = Normal <=> ~exec'.matches.null
       /\ (exec.pc # "idle" /\ exec'.pc # "idle") =>
             /\ exec'.mode = exec.mode
             /\ \A slot \in OtherModeSlots :
                   shared'[exec.re].compilationArray[slot] =
                       shared[exec.re].compilationArray[slot]
       /\ (last'.op = "compile" /\ last' # last) => last'.slot = <<exec.mode, exec.latin1>>
       /\ exec'.pc = "interp" =>
             shared'[exec'.re].compilationArray[<<exec'.mode, exec'.latin1>>].byteCode
       /\ exec'.pc = "native" =>
             shared'[exec'.re].compilationArray[<<exec'.mode, exec'.latin1>>].jitCode]_vars

\* A call without a MatchPairs found a match in native code and holds no
\* pairs, on a record whose slot for calls with a MatchPairs holds bytecode.
C31_Witness ==
    /\ exec.pc = "done"
    /\ exec.mode = MatchOnly
    /\ exec.status = RegExpRunStatus_Success
    /\ exec.from = "native_ret"
    /\ exec.matches = NoMatches
    /\ shared[exec.re].compilationArray[<<Normal, exec.latin1>>].byteCode
    /\ shared[exec.re].compilationArray[<<MatchOnly, exec.latin1>>].jitCode

(* Cloning an object *)

\* C32: a clone that is returned has the source of the original and the
\* flags of the original with those of the statics added. It has a
\* RegExpShared exactly when the statics hold no flag the original lacks,
\* and then it is the one the original had at the call, or the one the call
\* attached to the original, with the source and flags of the clone.
C32_Clone ==
    [][(clone'.made /\ clone'.ok) =>
          /\ clone'.key[1] = clone'.origKey[1]
          /\ clone'.key[2] = clone'.origKey[2] \cup clone'.statics
          /\ clone'.shared # 0 <=> clone'.statics \subseteq clone'.origKey[2]
          /\ clone'.shared # 0 =>
                /\ clone'.origShared \in {0, clone'.shared}
                /\ clone' # clone =>
                      /\ \A o \in Objects : objShared'[o] = clone'.shared
                      /\ KeyOf(shared'[clone'.shared]) = clone'.key]_vars

\* A sticky and multiline original without a RegExpShared was cloned under
\* statics that hold the multiline flag: the clone has the record the call
\* attached to the original.
C32_Witness ==
    /\ clone.made
    /\ clone.ok
    /\ clone.origKey[2] = {StickyFlag, MultilineFlag}
    /\ clone.statics = {MultilineFlag}
    /\ clone.origShared = 0
    /\ clone.shared # 0
    /\ \A o \in Objects : objShared[o] = clone.shared

(* Termination of execute (SpecRetry) *)

\* C33: when interrupts are requested only finitely often, every execute
\* call that has begun comes to its return with one of the three statuses.
\* After an interrupted attempt the loop either runs native code once more,
\* when the callback lets the call go on, or returns Error at once, when the
\* callback asks for termination; an attempt that fails without an
\* interrupt returns Error without a new attempt.
C33_ExecuteReturns ==
    /\ (<>[][~requestInterrupt]_vars) =>
          ((exec.pc \notin {"idle", "done"}) ~>
              (exec.pc = "done" /\ exec.status \in {RegExpRunStatus_Error,
                                                   RegExpRunStatus_Success,
                                                   RegExpRunStatus_Success_NotFound}))
    /\ [][/\ exec.pc = "poll" =>
               \/ exec'.pc = "native" /\ exec'.retried /\ ~interrupt'
               \/ exec'.pc = "done" /\ exec'.status = RegExpRunStatus_Error
        /\ exec'.pc = "poll" =>
               /\ exec.pc = "native_ret"
               /\ exec.result = RegExpRunStatus_Error
               /\ interrupt]_vars

\* A call returned a match from the attempt that followed an interrupt.
C33_Witness ==
    /\ exec.pc = "done"
    /\ exec.retried
    /\ exec.from = "native_ret"
    /\ exec.status = RegExpRunStatus_Success

\* C34: an object with a RegExpShared attached has the source and the flags
\* of that record, the object clone returned as well as an object that was
\* initialised, initialised again with other flags, and given its record by
\* getShared.
C34_ObjectAgreesWithShared ==
    /\ \A o \in Objects :
          objShared[o] # 0 => KeyOf(shared[objShared[o]]) = objKey[o]
    /\ (clone.made /\ clone.ok /\ clone.shared # 0) =>
          KeyOf(shared[clone.shared]) = clone.key

\* The original of a clone was initialised again with another source or
\* other flags and got another record than the one the clone holds.
C34_Witness ==
    /\ clone.made
    /\ clone.ok
    /\ clone.shared # 0
    /\ \E o \in Objects :
          /\ objKey[o] # clone.origKey
          /\ objShared[o] \notin {0, clone.shared}

(* Objects and the records they point to, across collections (Spec) *)

\* C35: no object points to a destroyed RegExpShared. When the collector
\* marks an object that has a record, the object is unlinked from it if the
\* zone does not preserve code, and else keeps it and the record is marked;
\* a sweep destroys no record an object points to.
C35_NoDanglingShared ==
    /\ [](\A o \in Objects : objShared[o] # 0 => objShared[o] \in alive)
    /\ [][/\ \A o \in objTraced' \ objTraced :
               objShared[o] # 0 =>
                  IF preservingCode
                  THEN /\ objShared'[o] = objShared[o]
                       /\ shared'[objShared[o]].marked_
                  ELSE objShared'[o] = 0
        /\ (last'.op = "sweep" /\ last' # last) =>
               /\ \A o \in Objects : objShared'[o] \notin (set_ \ set_')
               /\ alive' = alive \ (set_ \ set_')]_vars

\* A sweep destroyed one record and kept the record the object points to.
C35_Witness ==
    /\ last.op = "sweep"
    /\ last.pre # set_
    /\ \E o \in Objects : objShared[o] \in set_ \cap alive

\* C36: right after a sweep every record in the registry is unmarked, and
\* every record a sweep without compaction kept was marked when the sweep
\* began: a record survives the following sweep only by a mark set after
\* this one, never by the mark it had before.
C36_SweepClearsMarks ==
    last.op = "sweep" =>
        /\ \A r \in set_ : r \in alive /\ ~shared[r].marked_
        /\ ~last.compacting => set_ \subseteq last.marked

\* A sweep kept a record that was marked and left it unmarked.
C36_Witness ==
    /\ last.op = "sweep"
    /\ ~last.compacting
    /\ \E r \in set_ : r \in last.marked /\ ~shared[r].marked_

(* A failing get (SpecGet) *)

\* The registry and what hangs on it: the records, the set, the guards, the
\* marks.
RegistryState == <<shared, alive, allocated, set_, guards, got, handedOut,
                   atomMarked, codeMarked>>

\* C37: a get that returns false leaves the registry as it was: no entry is
\* added, no record is left allocated, no guard is initialised. It fails
\* on the flag string before any lookup, or after a lookup that found
\* nothing, when the record cannot be allocated or cannot be added.
C37_FailingGetChangesNothing ==
    [][(last'.op = "getFails" /\ last' # last) =>
          /\ RegistryState' = RegistryState
          /\ last'.cause = "flags" => (parse'.called /\ ~parse'.ok)
          /\ last'.cause \in {"alloc", "add"} => lookupForAdd(last'.key) = {}]_vars

\* A get failed to add its record while the registry held a guarded record
\* for another key.
C37_Witness ==
    /\ last.op = "getFails"
    /\ last.cause = "add"
    /\ set_ # {}
    /\ guards # {}
    /\ lookupForAdd(last.key) = {}
    /\ alive = set_

(* The slice of a sticky call (SpecSlice) *)

C39_OneCodePerSlot ==
    /\ \A r \in alive, slot \in Slots :
          ~(shared[r].compilationArray[slot].jitCode /\
            shared[r].compilationArray[slot].byteCode)
    /\ (last.op = "compile" /\ exec.pc = "compiled" /\ ~shared[last.re].canStringMatch) =>
          (shared[last.re].compilationArray[last.slot].jitCode #
           shared[last.re].compilationArray[last.slot].byteCode)
    /\ exec.pc = "native" =>
          /\ ~shared[exec.re].canStringMatch
          /\ ~RunningSlot.byteCode
          /\ RunningSlot.jitCode

\* A compile stored jit code in the slot of its call, for two-byte input, on
\* a record of which another slot holds bytecode.
C39_Witness ==
    /\ last.op = "compile"
    /\ exec.pc = "compiled"
    /\ last.code = "jit"
    /\ ~isCompiled(last.before, last.slot)
    /\ last.slot[2] = FALSE
    /\ shared[last.re].compilationArray[last.slot].jitCode
    /\ \E slot \in Slots : shared[last.re].compilationArray[slot].byteCode

(* The end of the registry (SpecTeardown) *)

\* C40: the records alive are at every moment the entries of the set, a
\* sweep taking the entry out in the step in which it deletes the record;
\* so the destructor deletes records that are alive, each once, and leaves
\* none alive, the records that only a stray mark had kept included.
C40_TeardownDestroysAll ==
    /\ alive = set_
    /\ last.op = "sweep" => set_ \subseteq last.pre
    /\ last.op = "teardown" =>
          /\ last.pre = last.aliveBefore
          /\ alive = {}
          /\ \A r \in Ids : ~shared[r].live

\* The destructor deleted a record that was marked, after a collection that
\* was given up, and that no guard and no object referred to.
C40_Witness ==
    /\ last.op = "teardown"
    /\ last.marked # {}
    /\ last.pre # last.marked
    /\ alive = {}

====
